---- MODULE Spec2Model ----
(***************************************************************************)
(* A model of ccrecall (src/src/rlm_claude_recall_mcp.py): the RLM client  *)
(* connection manager (RLMClient), the recall handler                      *)
(* (handle_memory_recall) with its candidate filter, per-candidate backend *)
(* orchestration and result aggregation, and the pure helpers they use.    *)
(*                                                                         *)
(* Text is modelled as a sequence of one-character strings, so that        *)
(* lowercasing, tokenising, substring tests and path decoding are computed *)
(* and not assumed.  Python's None is the value None below.                *)
(***************************************************************************)
EXTENDS Integers, Sequences, FiniteSets, TLC

VARIABLES
  envPath,      \* whether RLM_SERVER_PATH is set in the process environment
  session,      \* RLMClient.session: an object id, or NoObj for None
  clientCtx,    \* RLMClient._client_context: an object id, or NoObj
  sessionCtx,   \* RLMClient._session_context: an object id, or NoObj
  objs,         \* every transport / session context created so far, by id
  conn,         \* the connect() call in progress or last ended
  api,          \* the last direct call of a client method and how it ended
  calls,        \* backend operations forwarded during the current operation
  q,            \* the handle_memory_recall invocation in progress or last ended
  inp,          \* input of a pure function under check
  outp,         \* its output
  peer          \* a second handle_memory_recall task, suspended: its q and conn

vars == <<envPath, session, clientCtx, sessionCtx, objs, conn, api, calls, q, inp, outp, peer>>

(***************************************************************************)
(* Program constants.                                                      *)
(***************************************************************************)
MAX_SESSION_BYTES == 500000
MAX_LINES_PER_SESSION == 500
MAX_SESSIONS_TO_SEARCH == 10
MAX_RESULTS == 5
DEFAULT_MAX_RETRIES == 3
MAX_BATCH_CHUNKS == 5
EXCERPT_LEN == 500
ERROR_TEXT_LEN == 100

(***************************************************************************)
(* Bounds of the model.                                                    *)
(***************************************************************************)
MaxRetriesArg == 3   \* connect(max_retries = n) is called with n in 0..MaxRetriesArg
MaxCloses == 2       \* disconnect() is called while no held context was closed this often
MaxCap == 3          \* deduplicate_results is called with max_results in 0..MaxCap
MaxDedupLen == 3     \* length of the result lists given to deduplicate_results
MaxChunkCount == 6   \* largest chunk_count the backend reports

None == <<"<None>">>
NoObj == 0

(***************************************************************************)
(* Text.                                                                   *)
(***************************************************************************)
UpperCase == <<"A","B","C","D","E","F","G","H","I","J","K","L","M",
               "N","O","P","Q","R","S","T","U","V","W","X","Y","Z">>
LowerCase == <<"a","b","c","d","e","f","g","h","i","j","k","l","m",
               "n","o","p","q","r","s","t","u","v","w","x","y","z">>
Digits == <<"0","1","2","3","4","5","6","7","8","9">>

\* The characters in code point order, for Python's string comparison.
CodeOrder == <<" ", "-", ".", "/">> \o Digits \o <<":", "?">> \o UpperCase \o <<"_">> \o LowerCase

Range(s) == {s[i] : i \in 1..Len(s)}

CodeOf(c) == CHOOSE i \in 1..Len(CodeOrder) : CodeOrder[i] = c

\* str.lower() on one character
LowerChar(c) ==
  IF c \in Range(UpperCase)
    THEN LowerCase[CHOOSE i \in 1..Len(UpperCase) : UpperCase[i] = c]
    ELSE c

\* str.lower()
Lower(s) == [i \in 1..Len(s) |-> LowerChar(s[i])]

\* \w of the re module
IsWordChar(c) == c \in Range(UpperCase) \cup Range(LowerCase) \cup Range(Digits) \cup {"_"}

\* Python's  sub in s  on strings
Contains(sub, s) ==
  \E i \in 0..(Len(s) - Len(sub)) : SubSeq(s, i + 1, i + Len(sub)) = sub

\* Python's  a < b  on strings
RECURSIVE StrLess(_, _)
StrLess(a, b) ==
  IF b = <<>> THEN FALSE
  ELSE IF a = <<>> THEN TRUE
  ELSE IF Head(a) = Head(b) THEN StrLess(Tail(a), Tail(b))
  ELSE CodeOf(Head(a)) < CodeOf(Head(b))

\* Python's truth value of an optional string: None and "" are false
Truthy(v) == v # None /\ v # <<>>

Min(a, b) == IF a <= b THEN a ELSE b

(***************************************************************************)
(* decode_path                                                             *)
(***************************************************************************)
\* a faulty variant of decode_path: only the leading hyphen is replaced
DecodeLeadingOnly(encoded) ==
  IF encoded = <<>> \/ Head(encoded) # "-" THEN encoded ELSE <<"/">> \o Tail(encoded)

decode_path(encoded) ==
  IF encoded = <<>> \/ Head(encoded) # "-"
    THEN encoded
    ELSE <<"/">> \o [i \in 1..(Len(encoded) - 1) |->
                       IF encoded[i + 1] = "-" THEN "/" ELSE encoded[i + 1]]

(***************************************************************************)
(* extract_keywords                                                        *)
(***************************************************************************)
STOP_WORDS ==
  {
    <<"t","h","e">>, <<"a">>, <<"a","n">>, <<"i","s">>, <<"a","r","e">>, <<"w","a","s">>,
    <<"w","e","r","e">>, <<"b","e">>, <<"b","e","e","n">>, <<"b","e","i","n","g">>,
    <<"h","a","v","e">>, <<"h","a","s">>, <<"h","a","d">>, <<"d","o">>, <<"d","o","e","s">>,
    <<"d","i","d">>, <<"w","i","l","l">>, <<"w","o","u","l","d">>, <<"c","o","u","l","d">>,
    <<"s","h","o","u","l","d">>, <<"m","a","y">>, <<"m","i","g","h","t">>, <<"m","u","s","t">>,
    <<"s","h","a","l","l">>, <<"c","a","n">>, <<"n","e","e","d">>, <<"d","a","r","e">>,
    <<"o","u","g","h","t">>, <<"u","s","e","d">>, <<"t","o">>, <<"o","f">>, <<"i","n">>,
    <<"f","o","r">>, <<"o","n">>, <<"w","i","t","h">>, <<"a","t">>, <<"b","y">>,
    <<"f","r","o","m">>, <<"a","s">>, <<"i","n","t","o">>, <<"t","h","r","o","u","g","h">>,
    <<"d","u","r","i","n","g">>, <<"b","e","f","o","r","e">>, <<"a","f","t","e","r">>,
    <<"a","b","o","v","e">>, <<"b","e","l","o","w">>, <<"b","e","t","w","e","e","n">>,
    <<"u","n","d","e","r">>, <<"a","g","a","i","n">>, <<"f","u","r","t","h","e","r">>,
    <<"t","h","e","n">>, <<"o","n","c","e">>, <<"h","e","r","e">>, <<"t","h","e","r","e">>,
    <<"w","h","e","n">>, <<"w","h","e","r","e">>, <<"w","h","y">>, <<"h","o","w">>,
    <<"a","l","l">>, <<"e","a","c","h">>, <<"f","e","w">>, <<"m","o","r","e">>,
    <<"m","o","s","t">>, <<"o","t","h","e","r">>, <<"s","o","m","e">>, <<"s","u","c","h">>,
    <<"n","o">>, <<"n","o","r">>, <<"n","o","t">>, <<"o","n","l","y">>, <<"o","w","n">>,
    <<"s","a","m","e">>, <<"s","o">>, <<"t","h","a","n">>, <<"t","o","o">>,
    <<"v","e","r","y">>, <<"j","u","s","t">>, <<"a","n","d">>, <<"b","u","t">>, <<"i","f">>,
    <<"o","r">>, <<"b","e","c","a","u","s","e">>, <<"u","n","t","i","l">>,
    <<"w","h","i","l","e">>, <<"w","h","a","t">>, <<"w","h","i","c","h">>, <<"w","h","o">>,
    <<"t","h","i","s">>, <<"t","h","a","t">>, <<"t","h","e","s","e">>, <<"t","h","o","s","e">>,
    <<"a","m">>, <<"i">>, <<"m","y">>, <<"m","e">>, <<"y","o","u">>, <<"y","o","u","r">>,
    <<"i","t">>
  }

\* re.findall(r'\b\w+\b', text): the maximal runs of word characters, in order
RECURSIVE Tokens(_, _, _)
Tokens(text, i, cur) ==
  IF i > Len(text)
    THEN IF cur = <<>> THEN <<>> ELSE <<cur>>
  ELSE IF IsWordChar(text[i])
    THEN Tokens(text, i + 1, Append(cur, text[i]))
  ELSE (IF cur = <<>> THEN <<>> ELSE <<cur>>) \o Tokens(text, i + 1, <<>>)

\* a faulty variant of extract_keywords: words of two characters are kept
KeywordsKeepShort(query) ==
  SelectSeq(Tokens(Lower(query), 1, <<>>), LAMBDA w : w \notin STOP_WORDS /\ Len(w) >= 2)

extract_keywords(query) ==
  SelectSeq(Tokens(Lower(query), 1, <<>>), LAMBDA w : w \notin STOP_WORDS /\ Len(w) > 2)

(***************************************************************************)
(* extract_session_info                                                    *)
(*                                                                         *)
(* A session file is [stem, readable, lines].  A line is [k, type, val]:   *)
(*   k = "blank"    empty after strip()                                    *)
(*   k = "badjson"  json.loads raises JSONDecodeError                      *)
(*   k = "nonobj"   JSON that is not an object (entry.get does not exist)  *)
(*   k = "obj"      a JSON object; type is its "type" ("other" when it is  *)
(*                  none of the three consumed kinds); val is the consumed *)
(*                  field (summary, timestamp, message.model), None when   *)
(*                  absent, BadShape when "message" is not an object.      *)
(***************************************************************************)
BadShape == <<"<BadShape>">>
NO_SUMMARY == <<"N","o"," ","s","u","m","m","a","r","y"," ","a","v","a","i","l","a","b","l","e">>
NoInfo == [absent |-> TRUE]
Raised == [raised |-> TRUE]

\* one iteration of the  for line in f  loop on the accumulated fields
ScanLine(st, line) ==
  IF line.k \in {"blank", "badjson"} THEN st
  ELSE IF line.k = "nonobj" THEN Raised
  ELSE IF line.type = "summary" THEN [st EXCEPT !.summary = line.val]
  ELSE IF line.type = "user" /\ ~Truthy(st.timestamp) THEN [st EXCEPT !.timestamp = line.val]
  ELSE IF line.type = "assistant" /\ ~Truthy(st.model)
    THEN IF line.val = BadShape THEN Raised ELSE [st EXCEPT !.model = line.val]
  ELSE st

RECURSIVE ScanLines(_, _, _)
ScanLines(lines, i, st) ==
  IF i > Len(lines) \/ st = Raised THEN st
  ELSE ScanLines(lines, i + 1, ScanLine(st, lines[i]))

extract_session_info(file, project_path) ==
  IF ~file.readable THEN NoInfo
  ELSE LET st == ScanLines(file.lines, 1, [summary |-> None, timestamp |-> None, model |-> None])
       IN  IF st = Raised THEN NoInfo
           ELSE [session_id |-> file.stem,
                 project    |-> project_path,
                 summary    |-> IF Truthy(st.summary) THEN st.summary ELSE NO_SUMMARY,
                 timestamp  |-> st.timestamp,
                 model      |-> st.model]

(***************************************************************************)
(* read_session_content                                                    *)
(*                                                                         *)
(* The text of a file is the sequence of its lines, each [no, bytes]: its  *)
(* number in the file and its length, terminator included.  st_size is the *)
(* sum of the lengths.                                                     *)
(***************************************************************************)
\* the sum of the lengths of lines lo..hi, by halves
RECURSIVE SumBytes(_, _, _)
SumBytes(lines, lo, hi) ==
  IF lo > hi THEN 0
  ELSE IF lo = hi THEN lines[lo].bytes
  ELSE LET mid == (lo + hi) \div 2
       IN  SumBytes(lines, lo, mid) + SumBytes(lines, mid + 1, hi)

FileSize(text) == SumBytes(text, 1, Len(text))

\* a faulty variant of read_session_content: the line numbered
\* MAX_LINES_PER_SESSION is kept too
ReadOneLineMore(text) ==
  IF FileSize(text) <= MAX_SESSION_BYTES THEN text
  ELSE SelectSeq(text, LAMBDA line : line.no - 1 <= MAX_LINES_PER_SESSION)

\* lines 336-344; enumerate() counts from 0, line.no from 1
read_session_content(text) ==
  IF FileSize(text) <= MAX_SESSION_BYTES THEN text
  ELSE SelectSeq(text, LAMBDA line : line.no - 1 < MAX_LINES_PER_SESSION)

(***************************************************************************)
(* build_result_entry, deduplicate_results                                 *)
(***************************************************************************)
build_result_entry(session_info, relevance, excerpt) ==
  [session_id |-> session_info.session_id,
   project    |-> session_info.project,
   summary    |-> session_info.summary,
   timestamp  |-> session_info.timestamp,
   relevance  |-> relevance,
   excerpt    |-> excerpt]

\* the  for r in results  loop from index i on, with its  seen  and  unique
RECURSIVE DedupLoop(_, _, _, _, _)
DedupLoop(results, max_results, i, seen, unique) ==
  IF i > Len(results) THEN unique
  ELSE IF results[i].session_id \notin seen
    THEN IF Len(unique) + 1 >= max_results
           THEN Append(unique, results[i])
           ELSE DedupLoop(results, max_results, i + 1,
                          seen \cup {results[i].session_id}, Append(unique, results[i]))
  ELSE DedupLoop(results, max_results, i + 1, seen, unique)

deduplicate_results(results, max_results) == DedupLoop(results, max_results, 1, {}, <<>>)

(***************************************************************************)
(* find_matching_sessions                                                  *)
(*                                                                         *)
(* The corpus root is the sequence of its entries in iterdir() order, each *)
(* [name, is_dir, files], files being the *.jsonl files in glob() order.   *)
(***************************************************************************)
PassesFilter(project_filter, project_path) ==
  ~Truthy(project_filter) \/ Contains(project_filter, project_path)

\* a faulty variant of MatchesKeywords: all() for any(), without the guard
MatchesAllKeywords(keywords, session_info) ==
  LET summary_lower == Lower(IF Truthy(session_info.summary) THEN session_info.summary ELSE <<>>)
  IN  \A k \in 1..Len(keywords) : Contains(keywords[k], summary_lower)

MatchesKeywords(keywords, session_info) ==
  LET summary_lower == Lower(IF Truthy(session_info.summary) THEN session_info.summary ELSE <<>>)
  IN  keywords # <<>> /\ \E k \in 1..Len(keywords) : Contains(keywords[k], summary_lower)

\* the inner  for session_file in project_dir.glob("*.jsonl")  loop
RECURSIVE MatchFiles(_, _, _, _, _)
MatchFiles(dir, project_path, keywords, j, matching) ==
  IF j > Len(dir.files) THEN matching
  ELSE LET session_info == extract_session_info(dir.files[j], project_path)
           hit == session_info # NoInfo /\ MatchesKeywords(keywords, session_info)
       IN  MatchFiles(dir, project_path, keywords, j + 1,
                      IF hit
                        THEN Append(matching, [file |-> [dir |-> dir.name, stem |-> dir.files[j].stem],
                                               info |-> session_info])
                        ELSE matching)

\* the outer  for project_dir in projects_dir.iterdir()  loop
RECURSIVE MatchDirs(_, _, _, _, _)
MatchDirs(corpus, keywords, project_filter, d, matching) ==
  IF d > Len(corpus) THEN matching
  ELSE LET dir == corpus[d]
           project_path == decode_path(dir.name)
       IN  MatchDirs(corpus, keywords, project_filter, d + 1,
                     IF dir.is_dir /\ PassesFilter(project_filter, project_path)
                       THEN MatchFiles(dir, project_path, keywords, 1, matching)
                       ELSE matching)

\* key of  matching.sort(key=lambda x: x["info"].get("timestamp") or "", reverse=True)
SortKey(c) == IF Truthy(c.info.timestamp) THEN c.info.timestamp ELSE <<>>

\* list.sort(reverse=True) is stable: equal keys keep their order
RECURSIVE InsertDesc(_, _)
InsertDesc(sorted, c) ==
  IF sorted = <<>> THEN <<c>>
  ELSE IF StrLess(SortKey(Head(sorted)), SortKey(c)) THEN <<c>> \o sorted
  ELSE <<Head(sorted)>> \o InsertDesc(Tail(sorted), c)

RECURSIVE SortDesc(_, _, _)
SortDesc(matching, i, sorted) ==
  IF i > Len(matching) THEN sorted
  ELSE SortDesc(matching, i + 1, InsertDesc(sorted, matching[i]))

\* a faulty variant of find_matching_sessions: the list is cut before it is
\* sorted
FindCutBeforeSort(corpus, keywords, project_filter) ==
  LET matching == MatchDirs(corpus, keywords, project_filter, 1, <<>>)
  IN  SortDesc(SubSeq(matching, 1, Min(Len(matching), MAX_SESSIONS_TO_SEARCH)), 1, <<>>)

find_matching_sessions(corpus, keywords, project_filter) ==
  LET matching == SortDesc(MatchDirs(corpus, keywords, project_filter, 1, <<>>), 1, <<>>)
  IN  SubSeq(matching, 1, Min(Len(matching), MAX_SESSIONS_TO_SEARCH))

(***************************************************************************)
(* handle_memory_timeline                                                  *)
(*                                                                         *)
(* Times are whole seconds.  A file carries its st_mtime as  mtime.  The   *)
(* arguments are [days, project], days being [given, n].                   *)
(***************************************************************************)
DEFAULT_DAYS == 7
SECONDS_PER_DAY == 86400

DaysOf(arguments) == IF arguments.days.given THEN arguments.days.n ELSE DEFAULT_DAYS

\* the inner  for session_file in project_dir.glob("*.jsonl")  loop
RECURSIVE TimelineFiles(_, _, _, _, _)
TimelineFiles(dir, project_path, cutoff_time, j, sessions) ==
  IF j > Len(dir.files) THEN sessions
  ELSE LET session_info == extract_session_info(dir.files[j], project_path)
       IN  TimelineFiles(dir, project_path, cutoff_time, j + 1,
                         IF dir.files[j].mtime < cutoff_time \/ session_info = NoInfo
                           THEN sessions
                           ELSE Append(sessions, session_info))

\* the outer  for project_dir in projects_dir.iterdir()  loop
RECURSIVE TimelineDirs(_, _, _, _, _)
TimelineDirs(corpus, project_filter, cutoff_time, d, sessions) ==
  IF d > Len(corpus) THEN sessions
  ELSE LET dir == corpus[d]
           project_path == decode_path(dir.name)
       IN  TimelineDirs(corpus, project_filter, cutoff_time, d + 1,
                        IF dir.is_dir /\ PassesFilter(project_filter, project_path)
                          THEN TimelineFiles(dir, project_path, cutoff_time, 1, sessions)
                          ELSE sessions)

\* sessions.sort(key=lambda x: x["timestamp"] or "", reverse=True)
SortSessions(sessions) ==
  LET sorted == SortDesc([k \in 1..Len(sessions) |-> [info |-> sessions[k]]], 1, <<>>)
  IN  [k \in 1..Len(sorted) |-> sorted[k].info]

handle_memory_timeline(arguments, root, now) ==
  LET days == DaysOf(arguments)
      cutoff_time == now - days * SECONDS_PER_DAY
      sessions == SortSessions(TimelineDirs(root.entries, arguments.project, cutoff_time, 1, <<>>))
  IN  IF ~root.exists
        THEN [sessions |-> <<>>, total_sessions |-> 0, days |-> days]
        ELSE [sessions |-> sessions, total_sessions |-> Len(sessions), days |-> days]

(***************************************************************************)
(* handle_memory_projects                                                  *)
(*                                                                         *)
(* A file carries its st_size as  size;  a project directory carries as    *)
(*  other_bytes  the size of the files below it that are not its session   *)
(* files.  last_used is [set, local]: datetime.fromtimestamp(t) of the     *)
(* greatest st_mtime t is the naive local time of the process time zone,   *)
(* held as  local,  the seconds t shifted by the zone's offset at t; the   *)
(* isoformat() texts of two such times order as their  local  do.  A time  *)
(* zone is [at, before, after]: the offset from UTC is  before  up to the  *)
(* instant  at  and  after  from then on.  Sizes in MB and GB are counted  *)
(* in hundredths.                                                          *)
(***************************************************************************)
BYTES_PER_MB == 1048576
BYTES_PER_GB == 1073741824

\* round(bytes / unit, 2) in hundredths: a tie goes to the even hundredth
Round2(bytes, unit) ==
  LET whole == (bytes \div unit) * 100
      part == (bytes % unit) * 100
      h == part \div unit
      r == part % unit
  IN  whole + (IF 2 * r < unit THEN h
               ELSE IF 2 * r > unit THEN h + 1
               ELSE IF h % 2 = 0 THEN h ELSE h + 1)

RECURSIVE SumSizes(_, _)
SumSizes(files, j) == IF j > Len(files) THEN 0 ELSE files[j].size + SumSizes(files, j + 1)

RECURSIVE MaxMtime(_, _, _)
MaxMtime(files, j, best) ==
  IF j > Len(files) THEN best
  ELSE MaxMtime(files, j + 1, IF files[j].mtime > best THEN files[j].mtime ELSE best)

\* datetime.fromtimestamp(t) in the time zone tz, in seconds
LocalTime(t, tz) == t + (IF t < tz.at THEN tz.before ELSE tz.after)

ProjectEntry(dir, tz) ==
  [path          |-> decode_path(dir.name),
   session_count |-> Len(dir.files),
   last_used     |-> IF dir.files = <<>> THEN [set |-> FALSE, local |-> 0]
                     ELSE [set |-> TRUE, local |-> LocalTime(MaxMtime(dir.files, 1, 0), tz)],
   total_size_mb |-> Round2(SumSizes(dir.files, 1) + dir.other_bytes, BYTES_PER_MB)]

\* projects.sort(key=lambda x: x["last_used"] or "", reverse=True), stable
ProjectBefore(a, b) ==
  b.last_used.set /\ (~a.last_used.set \/ a.last_used.local < b.last_used.local)

RECURSIVE InsertProject(_, _)
InsertProject(sorted, e) ==
  IF sorted = <<>> THEN <<e>>
  ELSE IF ProjectBefore(Head(sorted), e) THEN <<e>> \o sorted
  ELSE <<Head(sorted)>> \o InsertProject(Tail(sorted), e)

\* the  for project_dir in projects_dir.iterdir()  loop and the sort
RECURSIVE ProjectDirs(_, _, _, _)
ProjectDirs(corpus, tz, d, acc) ==
  IF d > Len(corpus) THEN acc
  ELSE ProjectDirs(corpus, tz, d + 1,
         IF corpus[d].is_dir
           THEN [projects |-> InsertProject(acc.projects, ProjectEntry(corpus[d], tz)),
                 total_sessions |-> acc.total_sessions + Len(corpus[d].files),
                 total_size_bytes |-> acc.total_size_bytes + SumSizes(corpus[d].files, 1)
                                                          + corpus[d].other_bytes]
           ELSE acc)

\* a faulty variant of handle_memory_projects: without the test of lines
\* 210-216 iterdir() raises on a missing directory
ProjectsWithoutExistsTest(root, tz) ==
  LET acc == ProjectDirs(root.entries, tz, 1,
                         [projects |-> <<>>, total_sessions |-> 0, total_size_bytes |-> 0])
  IN  IF ~root.exists THEN Raised
      ELSE [projects |-> acc.projects, total_projects |-> Len(acc.projects),
            total_sessions |-> acc.total_sessions,
            total_size_gb |-> Round2(acc.total_size_bytes, BYTES_PER_GB)]

handle_memory_projects(root, tz) ==
  LET acc == ProjectDirs(root.entries, tz, 1,
                         [projects |-> <<>>, total_sessions |-> 0, total_size_bytes |-> 0])
  IN  IF ~root.exists
        THEN [projects |-> <<>>, total_projects |-> 0, total_sessions |-> 0, total_size_gb |-> 0]
        ELSE [projects |-> acc.projects, total_projects |-> Len(acc.projects),
              total_sessions |-> acc.total_sessions,
              total_size_gb |-> Round2(acc.total_size_bytes, BYTES_PER_GB)]

(***************************************************************************)
(* RLMClient                                                               *)
(*                                                                         *)
(* The client's three fields hold object ids.  objs gives, for each id a   *)
(* field or a suspended call still references, the context it names: a     *)
(* transport context (stdio_client) or a session context (ClientSession),  *)
(* with                                                                    *)
(*   st      "entering" (__aenter__ was called and has not ended),         *)
(*           "failed" (__aenter__ raised), "open" or "closed"              *)
(*   init    whether initialize() completed on it                          *)
(*   closes  how many times __aexit__ was called on it                     *)
(* An id nothing references any more is returned to FreeSlot.              *)
(*                                                                         *)
(* connect() and disconnect() suspend at each of their awaits.  The frame  *)
(* of such a call records where it is suspended (phase) and the context    *)
(* whose method it awaits (obj); a step of the model runs the call from    *)
(* one suspension to the next.  call_tool() suspends at line 135 until the *)
(* backend answers; the frame then holds the session the call was          *)
(* forwarded on (call).  The log of forwarded calls names sessions too.    *)
(***************************************************************************)
FreeSlot == [kind |-> "free", st |-> "none", init |-> FALSE, closes |-> 0]
TransportIds == {1, 4}
SessionIds == {2, 3, 5, 6, 7}
ObjIds == TransportIds \cup SessionIds

\* RLMClient.__init__
ClientInit == [session |-> NoObj, clientCtx |-> NoObj, sessionCtx |-> NoObj,
               objs |-> [i \in ObjIds |-> FreeSlot]]

Client == [session |-> session, clientCtx |-> clientCtx, sessionCtx |-> sessionCtx, objs |-> objs]

\* drop the contexts that neither a field nor a suspended call nor the log of
\* forwarded calls (held) references
Collect(c, held) ==
  [c EXCEPT !.objs = [i \in ObjIds |->
                        IF i \in {c.session, c.clientCtx, c.sessionCtx} \cup held
                          THEN c.objs[i] ELSE FreeSlot]]

\* the id given to a context that is created: the least one not in use
NewId(ids, used) == CHOOSE i \in ids \ used : \A j \in ids \ used : i <= j

\* what an await of connect() or disconnect() may do
AwaitOutcomes == {"ok", "raise"}

\* the guard of RLMClient.call_tool:  if not self.session: raise
NotConnected(c) == c.session = NoObj

\* 2 ** attempt
RECURSIVE Pow2(_)
Pow2(n) == IF n = 0 THEN 1 ELSE 2 * Pow2(n - 1)

\* the frame of a connect() or disconnect() call: none in progress
ConnIdle == [active |-> FALSE, caller |-> "none", op |-> "none", max |-> 0, attempt |-> 0,
             sleeps |-> <<>>, result |-> "none", phase |-> "none", obj |-> NoObj,
             call |-> NoObj]

\* the contexts a suspended call awaits on: the context connect() or
\* disconnect() is entering or leaving, the session of a call_tool in flight
Held(cn) == {cn.obj, cn.call} \ {NoObj}

\* the sessions the log of forwarded calls names
Logged(cl) == {cl[k].sess : k \in 1..Len(cl)}

\* lines 105-106: a transport context is created and bound to
\* _client_context, and the call suspends in its __aenter__
BindTransport(c, cn, held) ==
  LET t == NewId(TransportIds, {c.session, c.sessionCtx} \cup held)
  IN  [c  |-> Collect([c EXCEPT !.clientCtx = t,
                                !.objs[t] = [kind |-> "transport", st |-> "entering",
                                             init |-> FALSE, closes |-> 0]], held),
       cn |-> [cn EXCEPT !.phase = "transport_enter", !.obj = t]]

\* lines 108-109: a session context is created and bound to
\* _session_context, and the call suspends in its __aenter__
BindSession(c, cn, held) ==
  LET s == NewId(SessionIds, {c.session, c.clientCtx} \cup held)
  IN  [c  |-> Collect([c EXCEPT !.sessionCtx = s,
                                !.objs[s] = [kind |-> "session", st |-> "entering",
                                             init |-> FALSE, closes |-> 0]], held),
       cn |-> [cn EXCEPT !.phase = "session_enter", !.obj = s]]

\* lines 113-120: the except branch of an attempt: raise after the last
\* attempt, else suspend in asyncio.sleep(2 ** attempt)
AttemptFailed(c, cn, held) ==
  [c  |-> Collect(c, held),
   cn |-> IF cn.attempt = cn.max - 1
            THEN [cn EXCEPT !.active = FALSE, !.result = "failed", !.attempt = @ + 1,
                            !.phase = "none", !.obj = NoObj]
            ELSE [cn EXCEPT !.attempt = @ + 1, !.sleeps = Append(@, Pow2(cn.attempt)),
                            !.phase = "sleep", !.obj = NoObj]]

\* connect() from its call to its first suspension: the configuration check
\* and the loop entry (lines 90-106)
ConnectBegin(caller, max_retries, c, held) ==
  LET cn == [ConnIdle EXCEPT !.caller = caller, !.op = "connect", !.max = max_retries]
  IN  IF ~envPath THEN [c |-> c, cn |-> [cn EXCEPT !.result = "config_error"]]
      ELSE IF max_retries <= 0 THEN [c |-> c, cn |-> [cn EXCEPT !.result = "returned"]]
      ELSE BindTransport(c, [cn EXCEPT !.active = TRUE], held)

\* connect() from the end of the await it is suspended in to its next
\* suspension, its return or its raise (lines 106-120)
ConnectResumeEffect(c, cn, outcome, held) ==
  LET o == cn.obj
  IN  CASE cn.phase = "transport_enter" ->
             IF outcome = "raise"
               THEN AttemptFailed([c EXCEPT !.objs[o].st = "failed"], cn, held)
               ELSE BindSession([c EXCEPT !.objs[o].st = "open"], cn, held)
        [] cn.phase = "session_enter" ->
             IF outcome = "raise"
               THEN AttemptFailed([c EXCEPT !.objs[o].st = "failed"], cn, held)
               ELSE [c  |-> Collect([c EXCEPT !.objs[o].st = "open", !.session = o],
                                    held \cup {o}),
                     cn |-> [cn EXCEPT !.phase = "initialize"]]
        [] cn.phase = "initialize" ->
             IF outcome = "raise"
               THEN AttemptFailed(c, cn, held)
               ELSE [c  |-> Collect([c EXCEPT !.objs[o].init = TRUE], held),
                     cn |-> [cn EXCEPT !.active = FALSE, !.result = "returned",
                                       !.attempt = @ + 1, !.phase = "none", !.obj = NoObj]]
        [] OTHER -> BindTransport(c, cn, held)

\* __aexit__ is called on context i
CloseCalled(c, i) == [c EXCEPT !.objs[i].closes = @ + 1]

\* lines 126-129 of disconnect: the transport-level context, then the
\* session handle
DisconnectTransport(c, cn, held) ==
  IF c.clientCtx # NoObj
    THEN [c  |-> Collect(CloseCalled(c, c.clientCtx), held \cup {c.clientCtx}),
          cn |-> [cn EXCEPT !.active = TRUE, !.phase = "transport_exit",
                            !.obj = c.clientCtx]]
    ELSE [c  |-> Collect([c EXCEPT !.session = NoObj], held),
          cn |-> [cn EXCEPT !.active = FALSE, !.result = "returned",
                            !.phase = "none", !.obj = NoObj]]

\* disconnect() from its call to its first suspension (lines 124-125)
DisconnectBegin(c, held) ==
  LET cn == [ConnIdle EXCEPT !.caller = "api", !.op = "disconnect"]
  IN  IF c.sessionCtx # NoObj
        THEN [c  |-> Collect(CloseCalled(c, c.sessionCtx), held \cup {c.sessionCtx}),
              cn |-> [cn EXCEPT !.active = TRUE, !.phase = "session_exit",
                                !.obj = c.sessionCtx]]
        ELSE DisconnectTransport(c, cn, held)

\* disconnect() from the end of the __aexit__ it is suspended in to its next
\* suspension, its return or its raise
DisconnectResumeEffect(c, cn, outcome, held) ==
  LET o == cn.obj
      closed == [c EXCEPT !.objs[o].st = IF @ = "open" THEN "closed" ELSE @]
  IN  IF outcome = "raise"
        THEN [c  |-> Collect(c, held),
              cn |-> [cn EXCEPT !.active = FALSE, !.result = "raised",
                                !.phase = "none", !.obj = NoObj]]
      ELSE IF cn.phase = "session_exit"
        THEN DisconnectTransport(closed, [cn EXCEPT !.obj = NoObj], held)
      ELSE [c  |-> Collect([closed EXCEPT !.session = NoObj], held),
            cn |-> [cn EXCEPT !.active = FALSE, !.result = "returned",
                              !.phase = "none", !.obj = NoObj]]

(***************************************************************************)
(* handle_memory_recall and search_session_with_rlm                        *)
(***************************************************************************)
SESSION_PREFIX == <<"s","e","s","s","i","o","n","_">>
ContextName(session_info) == SESSION_PREFIX \o session_info.session_id

NoResp == [pending |-> TRUE]
NoRoot == [exists |-> FALSE, entries |-> <<>>]
NoArguments == [query |-> None, project |-> None]

QIdle == [pc |-> "idle", keywords |-> <<>>, top |-> <<>>, i |-> 0, step |-> "none",
          chunk_count |-> 0, results |-> <<>>, blocks |-> <<>>, connects |-> 0,
          used |-> FALSE, scanned |-> FALSE, trace |-> <<>>, args |-> NoArguments,
          root |-> NoRoot, resp |-> NoResp]

\* the excerpt of an entry: which text it is and the length of its variable part
Excerpt(kind, len) == [kind |-> kind, len |-> len]

\* lines 485-493: the response when connect() raised
DegradedResponse(top) ==
  [results |-> [k \in 1..Min(Len(top), MAX_RESULTS) |->
                  build_result_entry(top[k].info, "keyword_match", Excerpt("rlm_unavailable", 0))],
   total_sessions_searched |-> Len(top),
   note |-> "Semantic search unavailable - showing keyword matches"]

\* lines 507-510: the response after the loop over the candidates
SemanticResponse(results, top) ==
  [results |-> deduplicate_results(results, MAX_RESULTS),
   total_sessions_searched |-> Len(top)]

\* the loop header of lines 497-505: the next candidate, or the response
NextCandidate(qq) ==
  IF qq.i < Len(qq.top)
    THEN [qq EXCEPT !.i = @ + 1, !.step = "load", !.chunk_count = 0]
    ELSE [qq EXCEPT !.pc = "done", !.step = "none", !.chunk_count = 0,
                    !.resp = SemanticResponse(qq.results, qq.top)]

\* a faulty variant of CandidateFailed: the failure ends the loop over the
\* candidates
CandidateFailedAbort(qq, errlen, partial) ==
  LET results == Append(qq.results, build_result_entry(qq.top[qq.i].info, "keyword_match",
                                      Excerpt("error", Min(errlen, ERROR_TEXT_LEN))))
  IN  [qq EXCEPT !.results = results,
                 !.blocks = Append(@, [idx |-> qq.i, failed |-> TRUE, n |-> 1,
                                       dropped |-> partial]),
                 !.pc = "done", !.step = "none", !.chunk_count = 0,
                 !.resp = SemanticResponse(results, qq.top)]

\* lines 501-505: search_session_with_rlm raised for candidate qq.i after
\* building  partial  entries of its own
CandidateFailed(qq, errlen, partial) ==
  NextCandidate(
    [qq EXCEPT !.results = Append(@, build_result_entry(qq.top[qq.i].info, "keyword_match",
                                          Excerpt("error", Min(errlen, ERROR_TEXT_LEN)))),
               !.blocks = Append(@, [idx |-> qq.i, failed |-> TRUE, n |-> 1,
                                     dropped |-> partial])])

\* lines 499-500: search_session_with_rlm returned session_results
CandidateDone(qq, session_results) ==
  NextCandidate(
    [qq EXCEPT !.results = @ \o session_results,
               !.blocks = Append(@, [idx |-> qq.i, failed |-> FALSE,
                                     n |-> Len(session_results), dropped |-> 0])])

\* lines 438-445: the entries built from the items of a batch response, up to
\* the first item that raises.  An item is [r, len]: r = "text" a response of
\* len characters, r = "empty" no or an empty response, r = "bad" an item
\* that is not an object or whose response cannot be sliced.
RECURSIVE BatchEntries(_, _, _, _)
BatchEntries(session_info, items, k, acc) ==
  IF k > Len(items) THEN [raised |-> FALSE, entries |-> acc]
  ELSE IF items[k].r = "bad" THEN [raised |-> TRUE, entries |-> acc]
  ELSE IF items[k].r = "empty" THEN BatchEntries(session_info, items, k + 1, acc)
  ELSE BatchEntries(session_info, items, k + 1,
         Append(acc, build_result_entry(session_info, "semantic_match",
                                        Excerpt("response", Min(items[k].len, EXCERPT_LEN)))))

\* lines 424-427 and 432: chunk_indices is range(min(chunk_count, 5))
ChunkCount(inspect) ==
  IF inspect.data = "dict" /\ inspect.has_count THEN inspect.chunk_count ELSE 1

ChunkIndices(chunk_count) == [k \in 1..Min(chunk_count, MAX_BATCH_CHUNKS) |-> k - 1]

\* the record of one operation forwarded to the backend by RLMClient.call_tool
Forwarded(op, name, extra) == [op |-> op, name |-> name, sess |-> session, extra |-> extra]

\* a faulty variant of RecallBegin: the query is tested after the corpus has
\* been looked up and scanned
RecallBeginQueryTestedLate(arguments, root) ==
  LET query == IF arguments.query = None THEN <<>> ELSE arguments.query
      keywords == extract_keywords(query)
      top == find_matching_sessions(root.entries, keywords, arguments.project)
      q1 == [QIdle EXCEPT !.keywords = keywords, !.top = top, !.scanned = TRUE]
  IN  IF ~root.exists
        THEN [QIdle EXCEPT !.pc = "done",
                           !.resp = [results |-> <<>>, total_sessions_searched |-> 0,
                                     suggestion |-> "No Claude projects directory found"]]
      ELSE IF query = <<>>
        THEN [q1 EXCEPT !.pc = "done",
                        !.resp = [error |-> "MISSING_QUERY",
                                  message |-> "Query parameter is required"]]
      ELSE IF top = <<>>
        THEN [q1 EXCEPT !.pc = "done",
                        !.resp = [results |-> <<>>, total_sessions_searched |-> 0,
                                  suggestion |-> "No sessions found matching keywords"]]
      ELSE IF session # NoObj
        THEN [q1 EXCEPT !.pc = "search", !.i = 1, !.step = "load"]
      ELSE IF ~envPath
        THEN [q1 EXCEPT !.pc = "done", !.connects = 1, !.resp = DegradedResponse(top)]
      ELSE [q1 EXCEPT !.pc = "connecting", !.connects = 1]

\* a faulty variant of RecallBegin: connect() is awaited whether or not a
\* session is held
RecallBeginReconnects(arguments, root) ==
  LET query == IF arguments.query = None THEN <<>> ELSE arguments.query
      keywords == extract_keywords(query)
      top == find_matching_sessions(root.entries, keywords, arguments.project)
      q1 == [QIdle EXCEPT !.keywords = keywords, !.top = top, !.scanned = TRUE]
  IN  IF query = <<>>
        THEN [QIdle EXCEPT !.pc = "done",
                           !.resp = [error |-> "MISSING_QUERY",
                                     message |-> "Query parameter is required"]]
      ELSE IF ~root.exists
        THEN [QIdle EXCEPT !.pc = "done",
                           !.resp = [results |-> <<>>, total_sessions_searched |-> 0,
                                     suggestion |-> "No Claude projects directory found"]]
      ELSE IF top = <<>>
        THEN [q1 EXCEPT !.pc = "done",
                        !.resp = [results |-> <<>>, total_sessions_searched |-> 0,
                                  suggestion |-> "No sessions found matching keywords"]]
      ELSE IF ~envPath
        THEN [q1 EXCEPT !.pc = "done", !.connects = 1, !.resp = DegradedResponse(top)]
      ELSE [q1 EXCEPT !.pc = "connecting", !.connects = 1]

\* handle_memory_recall from its entry to its first suspension (lines 452-482)
RecallBegin(arguments, root) ==
  LET query == IF arguments.query = None THEN <<>> ELSE arguments.query
      keywords == extract_keywords(query)
      top == find_matching_sessions(root.entries, keywords, arguments.project)
      q1 == [QIdle EXCEPT !.keywords = keywords, !.top = top, !.scanned = TRUE]
  IN  IF query = <<>>
        THEN [QIdle EXCEPT !.pc = "done",
                           !.resp = [error |-> "MISSING_QUERY",
                                     message |-> "Query parameter is required"]]
      ELSE IF ~root.exists
        THEN [QIdle EXCEPT !.pc = "done",
                           !.resp = [results |-> <<>>, total_sessions_searched |-> 0,
                                     suggestion |-> "No Claude projects directory found"]]
      ELSE IF top = <<>>
        THEN [q1 EXCEPT !.pc = "done",
                        !.resp = [results |-> <<>>, total_sessions_searched |-> 0,
                                  suggestion |-> "No sessions found matching keywords"]]
      ELSE IF session # NoObj
        THEN [q1 EXCEPT !.pc = "search", !.i = 1, !.step = "load"]
      ELSE IF ~envPath
        THEN [q1 EXCEPT !.pc = "done", !.connects = 1, !.resp = DegradedResponse(top)]
      ELSE [q1 EXCEPT !.pc = "connecting", !.connects = 1]

\* lines 480-497: the handler resumes when its connect() call has ended
RecallAfterConnect(qq, cn) ==
  IF cn.active THEN qq
  ELSE IF cn.result = "returned" THEN [qq EXCEPT !.pc = "search", !.i = 1, !.step = "load"]
  ELSE [qq EXCEPT !.pc = "done", !.resp = DegradedResponse(qq.top)]

(***************************************************************************)
(* Inputs: corpora, queries, backend answers.                              *)
(***************************************************************************)
BackendErrLen == 250   \* length of the message of an error raised by the backend
PyErrLen == 37         \* length of the message of an error raised while parsing
ReadErrShort == 71     \* length of the message of a UnicodeDecodeError of the read
ReadErrLong == 107     \* length of the message of an OSError of the read, path included
ReadErrLens == {ReadErrShort, ReadErrLong}
NOT_CONNECTED_LEN == 27

T_bug == <<"b","u","g">>
T_summary == <<"s","u","m","m","a","r","y">>
T_fixed_bug == <<"F","i","x","e","d"," ","b","u","g">>
T_other_bug == <<"B","U","G"," ","2">>
T_login == <<"l","o","g","i","n">>
T_stop_only == <<"T","h","e"," ","o","f"," ","i","t","?"," ","G","o">>
T_p1 == <<"p","1">>
T_dir_p1 == <<"-","a","-","p","1">>
T_dir_p2 == <<"-","a","-","p","2">>
T_s1 == <<"s","1">>
T_s2 == <<"s","2">>
T_s3 == <<"s","3">>
T_2020 == <<"2","0","2","0">>
T_2021 == <<"2","0","2","1">>

Obj(type, val) == [k |-> "obj", type |-> type, val |-> val]
BlankLine == [k |-> "blank", type |-> "other", val |-> None]
BadJson == [k |-> "badjson", type |-> "other", val |-> None]
NonObj == [k |-> "nonobj", type |-> "other", val |-> None]

\* a session file last modified at  mtime  and of  size  bytes
FileAt(stem, lines, mtime, size) ==
  [stem |-> stem, readable |-> TRUE, lines |-> lines, mtime |-> mtime, size |-> size]
\* a project directory holding  other_bytes  bytes besides its session files
DirWith(name, files, other_bytes) ==
  [name |-> name, is_dir |-> TRUE, files |-> files, other_bytes |-> other_bytes]

Now == 1000000
File(stem, lines) == FileAt(stem, lines, Now - 3 * SECONDS_PER_DAY, 4096 * Len(lines))
Dir(name, files) == DirWith(name, files, 0)
Root(entries) == [exists |-> TRUE, entries |-> entries]
NotDir(name) == [name |-> name, is_dir |-> FALSE, files |-> <<>>, other_bytes |-> 0]

F_s1_bug == File(T_s1, <<Obj("user", T_2021), BadJson, Obj("summary", T_fixed_bug)>>)
F_s1_bug2 == File(T_s1, <<Obj("summary", T_other_bug), Obj("user", T_2020)>>)
F_s2_nosummary == File(T_s2, <<Obj("user", T_2020), Obj("assistant", None)>>)
F_s2_bug == File(T_s2, <<Obj("summary", T_other_bug)>>)
F_s3_login == File(T_s3, <<BlankLine, Obj("summary", T_login)>>)

\* one project: a matching session and one without a summary record
RootA == Root(<<Dir(T_dir_p1, <<F_s1_bug, F_s2_nosummary>>)>>)
\* two projects holding a session file of the same stem
RootDup == Root(<<Dir(T_dir_p1, <<F_s1_bug, F_s3_login>>), Dir(T_dir_p2, <<F_s1_bug2>>)>>)
\* three sessions matching "bug" across two projects
RootThree == Root(<<Dir(T_dir_p2, <<F_s2_bug>>), Dir(T_dir_p1, <<F_s1_bug, F_s3_login>>),
                    NotDir(T_s1), Dir(T_dir_p1 \o T_s3, <<File(T_s3, <<Obj("summary", T_bug)>>)>>)>>)

Roots == {NoRoot, RootA, RootDup, RootThree}

\* time zones of the process: UTC, and one whose clocks are set back an hour
\* (from 4 to 5 hours behind UTC) at the instant FallBackAt
FallBackAt == Now - 3 * SECONDS_PER_DAY
TZ_UTC == [at |-> 0, before |-> 0, after |-> 0]
TZ_FallBack == [at |-> FallBackAt, before |-> 0 - 4 * 3600, after |-> 0 - 5 * 3600]
TimeZones == {TZ_UTC, TZ_FallBack}
\* two projects last used 45 minutes apart, the clocks set back in between
RootFallBack ==
  Root(<<Dir(T_dir_p1, <<FileAt(T_s1, <<Obj("summary", T_fixed_bug)>>, FallBackAt - 900, 4096)>>),
         Dir(T_dir_p2, <<FileAt(T_s2, <<Obj("summary", T_other_bug)>>, FallBackAt + 1800, 4096)>>)>>)
ProjectRoots == Roots \cup {RootFallBack}
Queries == {None, <<>>, T_bug, T_stop_only, T_summary}
Projects == {None, T_p1}
Arguments == [query : Queries, project : Projects]

NoDays == [given |-> FALSE, n |-> 0]
Days(n) == [given |-> TRUE, n |-> n]
TimelineArguments == [days : {NoDays, Days(1)}, project : Projects]

CallOutcomes == {"ok", "raise"}

Inspect(raise, data, has_count, chunk_count) ==
  [raise |-> raise, data |-> data, has_count |-> has_count, chunk_count |-> chunk_count]
InspectOutcomes ==
  { Inspect(TRUE, "none", FALSE, 0),        \* the call raises
    Inspect(FALSE, "none", FALSE, 0),       \* no parseable text item
    Inspect(FALSE, "nondict", FALSE, 0),    \* JSON that is not an object
    Inspect(FALSE, "dict", FALSE, 0),       \* no chunk_count
    Inspect(FALSE, "dict", TRUE, 3),
    Inspect(FALSE, "dict", TRUE, MaxChunkCount) }

Item(r, len) == [r |-> r, len |-> len]
Batch(raise, data, items) == [raise |-> raise, data |-> data, items |-> items]
BatchOutcomes ==
  { Batch(TRUE, "none", <<>>),
    Batch(FALSE, "none", <<>>),
    Batch(FALSE, "nondict", <<>>),
    Batch(FALSE, "dict", <<Item("text", 40)>>),
    Batch(FALSE, "dict", <<Item("empty", 0), Item("text", 600), Item("text", 40)>>),
    Batch(FALSE, "dict", <<Item("text", 40), Item("bad", 0)>>) }

NotRun == [run |-> FALSE]
\* no second task: its frames are those of a handler that was not called
NoPeer == [q |-> QIdle, conn |-> ConnIdle]
ApiNone == [op |-> "none", result |-> "none"]

(***************************************************************************)
(* The client driven directly (as the test fixture does) and by the recall *)
(* handler.  One operation runs at a time.  In Spec the __aexit__ calls of *)
(* disconnect() return; SpecClient, the client's methods alone, lets them  *)
(* raise as well.                                                          *)
(***************************************************************************)
Init ==
  /\ envPath \in BOOLEAN
  /\ session = ClientInit.session
  /\ clientCtx = ClientInit.clientCtx
  /\ sessionCtx = ClientInit.sessionCtx
  /\ objs = ClientInit.objs
  /\ conn = ConnIdle
  /\ api = ApiNone
  /\ calls = <<>>
  /\ q = QIdle
  /\ inp = NotRun
  /\ outp = NotRun
  /\ peer = NoPeer

\* a faulty variant of Quiet: a handler starts only while no other task is
\* inside handle_memory_recall, as if the client were guarded by a lock
QuietUnderLock ==
  /\ q.pc = "idle" /\ ~conn.active /\ conn.call = NoObj
  /\ peer.q.pc = "idle" /\ ~peer.conn.active /\ peer.conn.call = NoObj

\* the running task is in no handler and in no method of the client
Quiet == q.pc = "idle" /\ ~conn.active /\ conn.call = NoObj

SetClient(c) ==
  /\ session' = c.session
  /\ clientCtx' = c.clientCtx
  /\ sessionCtx' = c.sessionCtx
  /\ objs' = c.objs

\* the contexts the suspended task's call awaits on
OtherHeld == Held(peer.conn)

\* the contexts referenced from outside the running task's call: by the
\* suspended task's call and by the log of forwarded calls
OtherRefs == OtherHeld \cup Logged(calls)

\* the client's fields as they are, less the contexts that nothing references
\* once the running task's frame is cn and the log is cl
Release(cn, cl) == SetClient(Collect(Client, Held(cn) \cup OtherHeld \cup Logged(cl)))

\* await client.connect(max_retries=n), up to its first suspension
ClientConnect(n) ==
  /\ Quiet
  /\ LET b == ConnectBegin("api", n, Client, OtherHeld)
     IN  /\ SetClient(Collect(b.c, Held(b.cn) \cup OtherHeld))
         /\ conn' = b.cn
  /\ api' = [op |-> "connect", result |-> conn'.result]
  /\ calls' = <<>>
  /\ UNCHANGED <<envPath, q, inp, outp, peer>>

\* connect() is resumed from the await it is suspended in, for either caller
ConnectResume(outcome) ==
  /\ conn.active /\ conn.op = "connect"
  /\ conn.phase = "sleep" => outcome = "ok"
  /\ LET r == ConnectResumeEffect(Client, conn, outcome, OtherRefs)
     IN  /\ SetClient(r.c)
         /\ conn' = r.cn
  /\ api' = IF conn.caller = "api" THEN [op |-> "connect", result |-> conn'.result] ELSE api
  /\ q' = IF conn.caller = "recall" THEN RecallAfterConnect(q, conn') ELSE q
  /\ UNCHANGED <<envPath, calls, inp, outp, peer>>

\* await client.disconnect(), up to its first suspension
ClientDisconnect ==
  /\ Quiet
  /\ \A i \in {clientCtx, sessionCtx} \ {NoObj} : objs[i].closes < MaxCloses
  /\ LET b == DisconnectBegin(Client, OtherHeld)
     IN  /\ SetClient(b.c)
         /\ conn' = b.cn
  /\ api' = [op |-> "disconnect", result |-> conn'.result]
  /\ calls' = <<>>
  /\ UNCHANGED <<envPath, q, inp, outp, peer>>

\* disconnect() is resumed from the __aexit__ it is suspended in
DisconnectResume(outcome) ==
  /\ conn.active /\ conn.op = "disconnect"
  /\ (conn.phase = "session_exit" /\ clientCtx # NoObj) => objs[clientCtx].closes < MaxCloses
  /\ LET r == DisconnectResumeEffect(Client, conn, outcome, OtherRefs)
     IN  /\ SetClient(r.c)
         /\ conn' = r.cn
  /\ api' = [op |-> "disconnect", result |-> conn'.result]
  /\ UNCHANGED <<envPath, calls, q, inp, outp, peer>>

\* await client.call_tool(op, ...), up to its raise at line 134 or its
\* suspension at line 135
ClientCallTool(op) ==
  /\ Quiet
  /\ IF NotConnected(Client)
       THEN /\ api' = [op |-> "call_tool", result |-> "not_connected"]
            /\ calls' = <<>>
            /\ conn' = ConnIdle
       ELSE /\ api' = [op |-> "call_tool", result |-> "pending"]
            /\ calls' = <<Forwarded(op, <<>>, <<>>)>>
            /\ conn' = [ConnIdle EXCEPT !.call = session]
  /\ Release(conn', calls')
  /\ UNCHANGED <<envPath, q, inp, outp, peer>>

\* the backend answers the call_tool in flight, or it raises
CallToolResume(outcome) ==
  /\ q.pc = "idle" /\ conn.call # NoObj
  /\ api' = [op |-> "call_tool",
             result |-> IF outcome = "raise" THEN "backend_error" ELSE "returned"]
  /\ conn' = ConnIdle
  /\ UNCHANGED <<envPath, session, clientCtx, sessionCtx, objs, calls, q, inp, outp, peer>>

\* await handle_memory_recall(arguments), up to its first suspension
RecallStart(arguments, root) ==
  /\ Quiet
  /\ q' = [RecallBegin(arguments, root) EXCEPT !.args = arguments, !.root = root]
  /\ LET b == IF q'.connects = 1
                THEN ConnectBegin("recall", DEFAULT_MAX_RETRIES, Client, OtherHeld)
                ELSE [c |-> Client, cn |-> ConnIdle]
     IN  /\ SetClient(Collect(b.c, Held(b.cn) \cup OtherHeld))
         /\ conn' = b.cn
  /\ api' = ApiNone
  /\ calls' = <<>>
  /\ UNCHANGED <<envPath, inp, outp, peer>>

\* the running task is in search_session_with_rlm, about to make the call of
\* step, or suspended in that call at line 135
Searching(step) == q.pc = "search" /\ q.step = step /\ ~conn.active /\ conn.call = NoObj
InCall(step) == q.pc = "search" /\ q.step = step /\ conn.call # NoObj

Candidate == q.top[q.i]

\* RLMClient.call_tool as search_session_with_rlm uses it: raise when there is
\* no session (the candidate fails at once), else forward on the session and
\* suspend until the backend answers or raises
CallForwarded(qq, cn) ==
  IF NotConnected(Client)
    THEN [q |-> CandidateFailed(qq, NOT_CONNECTED_LEN, 0), cn |-> cn]
    ELSE [q |-> [qq EXCEPT !.used = TRUE], cn |-> [cn EXCEPT !.call = session]]
CallsAfter(cl, op, extra) ==
  IF NotConnected(Client) THEN cl
  ELSE Append(cl, Forwarded(op, ContextName(Candidate.info), extra))

\* the backend calls of the query that have ended so far, each with the
\* candidate it was made for, what was sent, whether it failed and, for an
\* inspect call that returned, the answer
NoReply == Inspect(TRUE, "none", FALSE, 0)
Traced(qq, op, extra, failed, reply) ==
  [qq EXCEPT !.trace = Append(@, [idx |-> qq.i, op |-> op,
                                  name |-> ContextName(qq.top[qq.i].info),
                                  extra |-> extra, failed |-> failed, reply |-> reply])]

\* lines 407-412: read_session_content, then rlm_load_context up to the
\* suspension of the call
SearchLoad(readable) ==
  /\ Searching("load")
  /\ IF ~readable
       THEN /\ \E errlen \in ReadErrLens : q' = CandidateFailed(q, errlen, 0)
            /\ conn' = conn
            /\ calls' = <<>>
       ELSE /\ q' = CallForwarded(q, conn).q
            /\ conn' = CallForwarded(q, conn).cn
            /\ calls' = CallsAfter(<<>>, "rlm_load_context", <<>>)
  /\ Release(conn', calls')
  /\ UNCHANGED <<envPath, api, inp, outp, peer>>

\* line 409: the rlm_load_context call returns or raises
SearchLoadResume(outcome) ==
  /\ InCall("load")
  /\ LET qt == Traced(q, "rlm_load_context", <<>>, outcome = "raise", NoReply)
     IN  q' = IF outcome = "raise"
                THEN CandidateFailed(qt, BackendErrLen, 0)
                ELSE [qt EXCEPT !.step = "chunk"]
  /\ conn' = [conn EXCEPT !.call = NoObj]
  /\ UNCHANGED <<envPath, session, clientCtx, sessionCtx, objs, api, calls, inp, outp, peer>>

\* lines 414-418: rlm_chunk_context up to the suspension of the call
SearchChunk ==
  /\ Searching("chunk")
  /\ q' = CallForwarded(q, conn).q
  /\ conn' = CallForwarded(q, conn).cn
  /\ calls' = CallsAfter(calls, "rlm_chunk_context", <<>>)
  /\ UNCHANGED <<envPath, session, clientCtx, sessionCtx, objs, api, inp, outp, peer>>

\* line 414: the rlm_chunk_context call returns or raises
SearchChunkResume(outcome) ==
  /\ InCall("chunk")
  /\ LET qt == Traced(q, "rlm_chunk_context", <<>>, outcome = "raise", NoReply)
     IN  q' = IF outcome = "raise"
                THEN CandidateFailed(qt, BackendErrLen, 0)
                ELSE [qt EXCEPT !.step = "inspect"]
  /\ conn' = [conn EXCEPT !.call = NoObj]
  /\ UNCHANGED <<envPath, session, clientCtx, sessionCtx, objs, api, calls, inp, outp, peer>>

\* lines 420-422: rlm_inspect_context up to the suspension of the call
SearchInspect ==
  /\ Searching("inspect")
  /\ q' = CallForwarded(q, conn).q
  /\ conn' = CallForwarded(q, conn).cn
  /\ calls' = CallsAfter(calls, "rlm_inspect_context", <<>>)
  /\ UNCHANGED <<envPath, session, clientCtx, sessionCtx, objs, api, inp, outp, peer>>

\* lines 420-427: the rlm_inspect_context call returns or raises, and the
\* segment count is read from its answer
SearchInspectResume(inspect) ==
  /\ InCall("inspect")
  /\ LET qt == Traced(q, "rlm_inspect_context", <<>>, inspect.raise, inspect)
     IN  q' = IF inspect.raise
                THEN CandidateFailed(qt, BackendErrLen, 0)
              ELSE IF inspect.data = "nondict"
                THEN CandidateFailed(qt, PyErrLen, 0)
              ELSE [qt EXCEPT !.step = "batch", !.chunk_count = ChunkCount(inspect)]
  /\ conn' = [conn EXCEPT !.call = NoObj]
  /\ UNCHANGED <<envPath, session, clientCtx, sessionCtx, objs, api, calls, inp, outp, peer>>

\* lines 429-436: rlm_sub_query_batch up to the suspension of the call
SearchBatch ==
  /\ Searching("batch")
  /\ q' = CallForwarded(q, conn).q
  /\ conn' = CallForwarded(q, conn).cn
  /\ calls' = CallsAfter(calls, "rlm_sub_query_batch", ChunkIndices(q.chunk_count))
  /\ UNCHANGED <<envPath, session, clientCtx, sessionCtx, objs, api, inp, outp, peer>>

\* lines 429-447: the rlm_sub_query_batch call returns or raises, and the
\* entries are built from its answer
SearchBatchResume(batch) ==
  /\ InCall("batch")
  /\ LET qt == Traced(q, "rlm_sub_query_batch", ChunkIndices(q.chunk_count),
                       batch.raise, NoReply)
     IN  q' = IF batch.raise
                THEN CandidateFailed(qt, BackendErrLen, 0)
              ELSE IF batch.data = "nondict"
                THEN CandidateFailed(qt, PyErrLen, 0)
              ELSE IF batch.data = "none"
                THEN CandidateDone(qt, <<>>)
              ELSE LET built == BatchEntries(Candidate.info, batch.items, 1, <<>>)
                   IN  IF built.raised
                         THEN CandidateFailed(qt, PyErrLen, Len(built.entries))
                         ELSE CandidateDone(qt, built.entries)
  /\ conn' = [conn EXCEPT !.call = NoObj]
  /\ UNCHANGED <<envPath, session, clientCtx, sessionCtx, objs, api, calls, inp, outp, peer>>

\* the response is handed to the caller
RecallReturn ==
  /\ q.pc = "done"
  /\ q' = QIdle
  /\ conn' = ConnIdle
  /\ calls' = <<>>
  /\ Release(conn', calls')
  /\ UNCHANGED <<envPath, api, inp, outp, peer>>

\* await handle_memory_timeline(arguments): the handler runs to its end
\* without suspending on the backend
MemoryTimeline(arguments, root, now) ==
  /\ Quiet
  /\ api' = [op |-> "memory_timeline", result |-> "returned", args |-> arguments,
             root |-> root, resp |-> handle_memory_timeline(arguments, root, now)]
  /\ conn' = ConnIdle
  /\ calls' = <<>>
  /\ Release(conn', calls')
  /\ UNCHANGED <<envPath, q, inp, outp, peer>>

\* await handle_memory_projects()
MemoryProjects(root, tz) ==
  /\ Quiet
  /\ LET resp == handle_memory_projects(root, tz)
     IN  api' = [op |-> "memory_projects",
                 result |-> IF resp = Raised THEN "raised" ELSE "returned",
                 root |-> root, tz |-> tz, resp |-> resp]
  /\ conn' = ConnIdle
  /\ calls' = <<>>
  /\ Release(conn', calls')
  /\ UNCHANGED <<envPath, q, inp, outp, peer>>

ToolNames == {"rlm_load_context", "rlm_clear_context"}

Next ==
  \/ \E n \in 0..MaxRetriesArg : ClientConnect(n)
  \/ \E outcome \in AwaitOutcomes : ConnectResume(outcome)
  \/ ClientDisconnect
  \/ DisconnectResume("ok")
  \/ \E op \in ToolNames : ClientCallTool(op)
  \/ \E outcome \in CallOutcomes : CallToolResume(outcome)
  \/ \E arguments \in Arguments, root \in Roots : RecallStart(arguments, root)
  \/ \E arguments \in TimelineArguments, root \in Roots : MemoryTimeline(arguments, root, Now)
  \/ \E root \in ProjectRoots, tz \in TimeZones : MemoryProjects(root, tz)
  \/ \E readable \in BOOLEAN : SearchLoad(readable)
  \/ \E outcome \in CallOutcomes : SearchLoadResume(outcome)
  \/ SearchChunk
  \/ \E outcome \in CallOutcomes : SearchChunkResume(outcome)
  \/ SearchInspect
  \/ \E inspect \in InspectOutcomes : SearchInspectResume(inspect)
  \/ SearchBatch
  \/ \E batch \in BatchOutcomes : SearchBatchResume(batch)
  \/ RecallReturn

Spec == Init /\ [][Next]_vars

NextClient ==
  \/ \E n \in 0..MaxRetriesArg : ClientConnect(n)
  \/ \E outcome \in AwaitOutcomes : ConnectResume(outcome)
  \/ ClientDisconnect
  \/ \E outcome \in AwaitOutcomes : DisconnectResume(outcome)
  \/ \E op \in ToolNames : ClientCallTool(op)
  \/ \E outcome \in CallOutcomes : CallToolResume(outcome)

SpecClient == Init /\ [][NextClient]_vars

(***************************************************************************)
(* Two tasks on the one event loop, sharing the module-level rlm_client:   *)
(* in SpecConcurrent each runs handle_memory_recall or a call_tool, in     *)
(* SpecConcurrentClient each calls the client's methods, disconnect        *)
(* included.  The task that runs has its frames in q and                   *)
(* conn, the suspended one in peer; at an await (of connect, disconnect    *)
(* or call_tool) the loop may resume the other task.                       *)
(***************************************************************************)
ConcArguments == [query : {T_bug}, project : {None}]
ConcRoots == {RootA}
ConcInspectOutcomes == {Inspect(FALSE, "dict", TRUE, 3)}
ConcBatchOutcomes == {Batch(FALSE, "dict", <<Item("text", 40)>>)}

InitConcurrent ==
  /\ Init
  /\ envPath = TRUE

\* the running task is suspended at an await of connect(), disconnect() or
\* call_tool(), or it has not started or has ended, and the event loop
\* resumes the other one
Switch ==
  /\ conn.active \/ conn.call # NoObj \/ q.pc \in {"idle", "done"}
  /\ <<q, conn>> # <<peer.q, peer.conn>>
  /\ q' = peer.q
  /\ conn' = peer.conn
  /\ peer' = [q |-> q, conn |-> conn]
  /\ UNCHANGED <<envPath, session, clientCtx, sessionCtx, objs, api, calls, inp, outp>>

NextConcurrent ==
  \/ \E arguments \in ConcArguments, root \in ConcRoots : RecallStart(arguments, root)
  \/ \E outcome \in AwaitOutcomes : ConnectResume(outcome)
  \/ SearchLoad(TRUE)
  \/ SearchLoadResume("ok")
  \/ SearchChunk
  \/ SearchChunkResume("ok")
  \/ SearchInspect
  \/ \E inspect \in ConcInspectOutcomes : SearchInspectResume(inspect)
  \/ SearchBatch
  \/ \E batch \in ConcBatchOutcomes : SearchBatchResume(batch)
  \/ RecallReturn
  \/ ClientCallTool("rlm_load_context")
  \/ CallToolResume("ok")
  \/ Switch

SpecConcurrent == InitConcurrent /\ [][NextConcurrent]_vars

\* two tasks calling the client's methods on the one event loop
NextConcurrentClient ==
  \/ ClientConnect(DEFAULT_MAX_RETRIES)
  \/ \E outcome \in AwaitOutcomes : ConnectResume(outcome)
  \/ ClientDisconnect
  \/ DisconnectResume("ok")
  \/ ClientCallTool("rlm_load_context")
  \/ CallToolResume("ok")
  \/ Switch

SpecConcurrentClient == InitConcurrent /\ [][NextConcurrentClient]_vars

(***************************************************************************)
(* deduplicate_results applied to bounded inputs.                          *)
(***************************************************************************)
DedupIds == {T_s1, T_s2, T_s3}
DedupEntries == [session_id : DedupIds, excerpt : {Excerpt("response", 40), Excerpt("error", 37)}]

RECURSIVE SeqsUpTo(_, _)
SeqsUpTo(S, n) ==
  IF n = 0 THEN {<<>>}
  ELSE LET shorter == SeqsUpTo(S, n - 1)
       IN  shorter \cup {Append(s, x) : s \in {t \in shorter : Len(t) = n - 1}, x \in S}

InitPure ==
  /\ envPath = TRUE
  /\ session = ClientInit.session
  /\ clientCtx = ClientInit.clientCtx
  /\ sessionCtx = ClientInit.sessionCtx
  /\ objs = ClientInit.objs
  /\ conn = ConnIdle
  /\ api = ApiNone
  /\ calls = <<>>
  /\ q = QIdle
  /\ outp = NotRun
  /\ peer = NoPeer

InitDedup ==
  /\ InitPure
  /\ inp \in [run : {TRUE}, results : SeqsUpTo(DedupEntries, MaxDedupLen), max_results : 0..MaxCap]

ApplyDedup ==
  /\ inp.run /\ ~outp.run
  /\ outp' = [run |-> TRUE, unique |-> deduplicate_results(inp.results, inp.max_results)]
  /\ UNCHANGED <<envPath, session, clientCtx, sessionCtx, objs, conn, api, calls, q, inp, peer>>

NextDedup == ApplyDedup

SpecDedup == InitDedup /\ [][NextDedup]_vars

(***************************************************************************)
(* find_matching_sessions applied to bounded inputs.  Every file here is   *)
(* readable, holds only lines that parse as objects, blank lines and lines *)
(* that do not parse, and has at most one summary record.                  *)
(***************************************************************************)
T_zz == <<"z","z">>
T_dash_p == <<"/","p">>
F_s4_nullsummary == File(<<"s","4">>, <<Obj("summary", None), Obj("user", T_2020)>>)
F_s5_empty == File(<<"s","5">>, <<BlankLine, BadJson>>)

FilterFileLists ==
  { <<>>, <<F_s1_bug>>, <<F_s2_nosummary>>, <<F_s1_bug, F_s2_nosummary>>,
    <<F_s3_login, F_s1_bug2>>, <<F_s4_nullsummary, F_s5_empty>> }

FilterEntries(name) == {Dir(name, fl) : fl \in FilterFileLists} \cup {NotDir(name)}

FilterCorpora ==
  {<<>>} \cup {<<e>> : e \in FilterEntries(T_dir_p1)}
         \cup {<<e1, e2>> : e1 \in FilterEntries(T_dir_p1), e2 \in FilterEntries(T_dir_p2)}
         \cup {<<e2, e1>> : e1 \in {Dir(T_dir_p1, <<F_s1_bug>>)}, e2 \in FilterEntries(T_dir_p2)}

FilterKeywords == {<<>>, <<T_bug>>, <<T_summary>>, <<T_login, T_bug>>, <<T_zz>>}
FilterProjects == {None, <<>>, T_p1, T_dash_p, T_zz}

InitFilter ==
  /\ InitPure
  /\ inp \in [run : {TRUE}, corpus : FilterCorpora, keywords : FilterKeywords,
              project : FilterProjects]

ApplyFilter ==
  /\ inp.run /\ ~outp.run
  /\ outp' = [run |-> TRUE,
              top |-> find_matching_sessions(inp.corpus, inp.keywords, inp.project)]
  /\ UNCHANGED <<envPath, session, clientCtx, sessionCtx, objs, conn, api, calls, q, inp, peer>>

NextFilter == ApplyFilter

SpecFilter == InitFilter /\ [][NextFilter]_vars

(***************************************************************************)
(* find_matching_sessions applied to corpora holding more sessions than    *)
(* MAX_SESSIONS_TO_SEARCH.  Session k of a corpus is the file s<k>; its    *)
(* first user record carries TopStamps[(a * k + b) % Len(TopStamps) + 1],  *)
(* its summary matches the keyword unless k is a multiple of  skip,  and   *)
(* the first  split  sessions lie in one project, the others in a second.  *)
(***************************************************************************)
MaxTopSessions == 12

T_2021_01 == <<"2","0","2","1","-","0","1">>
T_1999 == <<"1","9","9","9">>
TopStamps == <<None, T_2020, T_2021, <<>>, T_2021_01, T_1999>>

RECURSIVE DigitText(_)
DigitText(k) ==
  IF k < 10 THEN <<Digits[k + 1]>> ELSE DigitText(k \div 10) \o <<Digits[(k % 10) + 1]>>

TopFile(k, a, b, skip) ==
  File(<<"s">> \o DigitText(k),
       << Obj("summary", IF skip > 0 /\ k % skip = 0 THEN T_login ELSE T_fixed_bug),
          Obj("user", TopStamps[((a * k + b) % Len(TopStamps)) + 1]) >>)

TopCorpus(n, a, b, skip, split) ==
  << Dir(T_dir_p2, [k \in 1..Min(split, n) |-> TopFile(k, a, b, skip)]),
     Dir(T_dir_p1, [k \in 1..(n - Min(split, n)) |-> TopFile(Min(split, n) + k, a, b, skip)]) >>

TopCorpora ==
  { TopCorpus(n, a, b, skip, split) :
      n \in (MaxTopSessions - 3)..MaxTopSessions, a \in 1..4, b \in 0..3,
      skip \in {0, 5}, split \in {0, 4} }

InitTop ==
  /\ InitPure
  /\ inp \in [run : {TRUE}, corpus : TopCorpora, keywords : {<<T_bug>>}, project : {None, T_p1}]

ApplyTop ==
  /\ inp.run /\ ~outp.run
  /\ outp' = [run |-> TRUE,
              top |-> find_matching_sessions(inp.corpus, inp.keywords, inp.project)]
  /\ UNCHANGED <<envPath, session, clientCtx, sessionCtx, objs, conn, api, calls, q, inp, peer>>

NextTop == ApplyTop

SpecTop == InitTop /\ [][NextTop]_vars

(***************************************************************************)
(* extract_session_info applied to every file of up to MaxInfoLines lines  *)
(* drawn from InfoLines.                                                   *)
(***************************************************************************)
MaxInfoLines == 3

T_m1 == <<"m","1">>
T_m2 == <<"m","2">>
InfoLines ==
  { BlankLine, BadJson, NonObj, Obj("other", None), Obj("summary", T_fixed_bug),
    Obj("summary", T_login), Obj("user", None), Obj("user", T_2020), Obj("user", T_2021),
    Obj("assistant", None), Obj("assistant", T_m1), Obj("assistant", T_m2),
    Obj("assistant", BadShape) }

InitInfo ==
  /\ InitPure
  /\ inp \in [run : {TRUE}, file : {File(T_s1, lines) : lines \in SeqsUpTo(InfoLines, MaxInfoLines)},
              project : {T_p1}]

ApplyInfo ==
  /\ inp.run /\ ~outp.run
  /\ outp' = [run |-> TRUE, info |-> extract_session_info(inp.file, inp.project)]
  /\ UNCHANGED <<envPath, session, clientCtx, sessionCtx, objs, conn, api, calls, q, inp, peer>>

NextInfo == ApplyInfo

SpecInfo == InitInfo /\ [][NextInfo]_vars

(***************************************************************************)
(* read_session_content applied to files of  n  lines, the first of        *)
(* first  bytes and the others of  each  bytes.                            *)
(***************************************************************************)
MaxReadLines == 502

TextOf(n, first, each) == [k \in 1..n |-> [no |-> k, bytes |-> IF k = 1 THEN first ELSE each]]

ReadLineCounts == {0, 1, 2, 499, 500, 501, MaxReadLines}
ReadFirstBytes == {1, 1000, 1001, 500000, 500001}
ReadEachBytes == {1, 998, 999, 1000, 1001, 2000}

InitRead ==
  /\ InitPure
  /\ inp \in [run : {TRUE}, n : ReadLineCounts, first : ReadFirstBytes, each : ReadEachBytes]

ApplyRead ==
  /\ inp.run /\ ~outp.run
  /\ outp' = [run |-> TRUE,
              content |-> read_session_content(TextOf(inp.n, inp.first, inp.each))]
  /\ UNCHANGED <<envPath, session, clientCtx, sessionCtx, objs, conn, api, calls, q, inp, peer>>

NextRead == ApplyRead

SpecRead == InitRead /\ [][NextRead]_vars

(***************************************************************************)
(* handle_memory_timeline applied to corpora whose files were modified     *)
(* before, at and after the cutoff of a window of MaxDays - 1 days.  Every *)
(* file is readable.                                                       *)
(***************************************************************************)
MaxDays == 2

WindowEdge == Now - (MaxDays - 1) * SECONDS_PER_DAY
TimelineMtimes == {WindowEdge - 1, WindowEdge, WindowEdge + 1, Now}

F_nonobj == FileAt(T_s3, <<Obj("user", T_2021), NonObj>>, Now, 10)

TimelineFileLists ==
  {<<>>}
    \cup { <<FileAt(T_s1, <<Obj("user", T_2020), Obj("summary", T_fixed_bug)>>, m, 10)>> :
             m \in TimelineMtimes }
    \cup { << FileAt(T_s2, <<Obj("summary", T_login)>>, m2, 10),
              FileAt(T_s1, <<Obj("user", T_2021)>>, m1, 10) >> :
             m1 \in TimelineMtimes, m2 \in TimelineMtimes }
    \cup { <<F_nonobj>> }

TimelineCorpora ==
  { <<Dir(T_dir_p2, <<FileAt(T_s2, <<Obj("user", T_2021_01)>>, m, 10)>>), Dir(T_dir_p1, fl)>> :
      m \in {WindowEdge - 1, WindowEdge}, fl \in TimelineFileLists }
    \cup { <<NotDir(T_s1), Dir(T_dir_p1, fl)>> : fl \in TimelineFileLists }

InitTimeline ==
  /\ InitPure
  /\ inp \in [run : {TRUE}, root : {Root(c) : c \in TimelineCorpora},
              arguments : [days : {NoDays} \cup {Days(n) : n \in 0..MaxDays},
                           project : {None, <<>>, T_p1}],
              now : {Now}]

ApplyTimeline ==
  /\ inp.run /\ ~outp.run
  /\ outp' = [run |-> TRUE, resp |-> handle_memory_timeline(inp.arguments, inp.root, inp.now)]
  /\ UNCHANGED <<envPath, session, clientCtx, sessionCtx, objs, conn, api, calls, q, inp, peer>>

NextTimeline == ApplyTimeline

SpecTimeline == InitTimeline /\ [][NextTimeline]_vars

(***************************************************************************)
(* decode_path applied to every text of up to MaxPathLen characters of     *)
(* PathChars.                                                              *)
(***************************************************************************)
MaxPathLen == 4

PathChars == {"-", "/", "a", "B"}

InitDecode ==
  /\ InitPure
  /\ inp \in [run : {TRUE}, encoded : SeqsUpTo(PathChars, MaxPathLen)]

ApplyDecode ==
  /\ inp.run /\ ~outp.run
  /\ outp' = [run |-> TRUE, path |-> decode_path(inp.encoded)]
  /\ UNCHANGED <<envPath, session, clientCtx, sessionCtx, objs, conn, api, calls, q, inp, peer>>

NextDecode == ApplyDecode

SpecDecode == InitDecode /\ [][NextDecode]_vars

(***************************************************************************)
(* extract_keywords applied to every query made of up to MaxQueryPieces    *)
(* pieces of QueryPieces written one after the other.                      *)
(***************************************************************************)
MaxQueryPieces == 3

T_The == <<"T","h","e">>
T_Bug == <<"B","u","g">>
T_Go == <<"G","o">>
T_x_9 == <<"x","_","9">>
QueryPieces ==
  { T_The, T_Bug, T_Go, T_x_9, <<"o","f">>, <<"i","t">>, <<" ">>, <<"?">>, <<"-">>, <<"s">> }

RECURSIVE Flatten(_)
Flatten(pieces) == IF pieces = <<>> THEN <<>> ELSE Head(pieces) \o Flatten(Tail(pieces))

InitKeywords ==
  /\ InitPure
  /\ inp \in [run : {TRUE},
              query : {Flatten(pieces) : pieces \in SeqsUpTo(QueryPieces, MaxQueryPieces)}]

ApplyKeywords ==
  /\ inp.run /\ ~outp.run
  /\ outp' = [run |-> TRUE, keywords |-> extract_keywords(inp.query)]
  /\ UNCHANGED <<envPath, session, clientCtx, sessionCtx, objs, conn, api, calls, q, inp, peer>>

NextKeywords == ApplyKeywords

SpecKeywords == InitKeywords /\ [][NextKeywords]_vars

(***************************************************************************)
(* Properties.                                                             *)
(***************************************************************************)

\* the client holds a session on which the initialize handshake completed
Established == session # NoObj /\ objs[session].init /\ objs[session].st = "open"

NoRepeatedSession(results) ==
  \A a, b \in 1..Len(results) : a < b => results[a].session_id # results[b].session_id

\* C1: a recall query that has candidates and ends while no initialised
\* session is held returns the degraded response (one keyword_match entry
\* with the fixed excerpt per candidate, in order, up to MAX_RESULTS, and
\* the note) and has forwarded nothing to the backend.
C1_DegradedWhenNotConnected ==
  (q.pc = "done" /\ q.top # <<>> /\ ~Established)
    => (q.resp = DegradedResponse(q.top) /\ ~q.used)

\* C2: between the calls of the client's methods the session handle is set
\* only if initialize() completed on that session.
C2_SessionSetOnlyIfInitialized ==
  (session # NoObj /\ ~conn.active) => objs[session].init

\* C3: call_tool on a client that holds no initialised session fails with
\* 'Not connected', forwards nothing and starts no connect.
C3_CallToolFailsWhenNotConnected ==
  (api.op = "call_tool" /\ ~Established)
    => (api.result = "not_connected" /\ calls = <<>> /\ ~conn.active)

\* C4: with the configuration present, connect(n) makes at most n attempts,
\* sleeps 1, 2, 4, ... between consecutive attempts and not after the last,
\* and ends either returning with the client connected or raising 'Failed
\* to connect'.
C4_ConnectBoundedBackoff ==
  (conn.op = "connect" /\ envPath)
    => /\ conn.attempt <= conn.max
       /\ conn.sleeps = [k \in 1..Len(conn.sleeps) |-> Pow2(k - 1)]
       /\ conn.active => Len(conn.sleeps) = conn.attempt
       /\ (~conn.active /\ conn.attempt > 0) => Len(conn.sleeps) = conn.attempt - 1
       /\ ~conn.active => conn.result \in {"returned", "failed"}
       /\ (~conn.active /\ conn.result = "returned") => session # NoObj

IsPlaceholder(e, info) ==
  /\ e.excerpt.kind = "error"
  /\ e = build_result_entry(info, "keyword_match", e.excerpt)

IsSemantic(e, info) ==
  /\ e.excerpt.kind = "response"
  /\ e = build_result_entry(info, "semantic_match", e.excerpt)

\* results is, block by block in candidate order, what the candidates
\* processed so far contributed: one placeholder for a failed one
RECURSIVE BlocksMatch(_, _, _, _, _)
BlocksMatch(results, blocks, top, k, off) ==
  IF k > Len(blocks) THEN off = Len(results)
  ELSE /\ blocks[k].idx = k
       /\ k <= Len(top)
       /\ off + blocks[k].n <= Len(results)
       /\ IF blocks[k].failed
            THEN blocks[k].n = 1 /\ IsPlaceholder(results[off + 1], top[k].info)
            ELSE \A m \in 1..blocks[k].n : IsSemantic(results[off + m], top[k].info)
       /\ BlocksMatch(results, blocks, top, k + 1, off + blocks[k].n)

\* C5: on the semantic path every candidate is processed, in candidate
\* order, whatever fails; a failing candidate contributes exactly one
\* placeholder and none of its partial entries, and the query ends with the
\* normal response.
C5_FailuresIsolatedPerCandidate ==
  /\ q.pc = "search" =>
       /\ Len(q.blocks) = q.i - 1
       /\ BlocksMatch(q.results, q.blocks, q.top, 1, 0)
  /\ (q.pc = "done" /\ q.blocks # <<>>) =>
       /\ Len(q.blocks) = Len(q.top)
       /\ BlocksMatch(q.results, q.blocks, q.top, 1, 0)
       /\ q.resp = SemanticResponse(q.results, q.top)

C5_Witness ==
  /\ q.pc = "done"
  /\ \E k \in 1..(Len(q.blocks) - 1) :
       /\ q.blocks[k].failed /\ q.blocks[k].dropped > 0
       /\ ~q.blocks[k + 1].failed /\ q.blocks[k + 1].n > 0

\* C6: a response that carries results has at most MAX_RESULTS entries and
\* no two entries of the same session identifier.
C6_ResponseCappedAndUnique ==
  (q.pc = "done" /\ "results" \in DOMAIN q.resp)
    => /\ Len(q.resp.results) <= MAX_RESULTS
       /\ NoRepeatedSession(q.resp.results)

\* the entries that are the first of their session identifier, in order
FirstOccurrences(results) ==
  LET keep == {i \in 1..Len(results) :
                 \A j \in 1..(i - 1) : results[j].session_id # results[i].session_id}
      RECURSIVE Pick(_)
      Pick(i) == IF i > Len(results) THEN <<>>
                 ELSE (IF i \in keep THEN <<results[i]>> ELSE <<>>) \o Pick(i + 1)
  IN  Pick(1)

\* C7: for every list and every cap >= 0, deduplicate_results returns the
\* first occurrences per session identifier, in arrival order, cut to the
\* first cap of them.
C7_DedupFirstOccurrencesUpToCap ==
  outp.run =>
    LET first == FirstOccurrences(inp.results)
    IN  /\ outp.unique = SubSeq(first, 1, Min(Len(first), inp.max_results))
        /\ Len(outp.unique) <= inp.max_results
        /\ NoRepeatedSession(outp.unique)

\* C8: with RLM_SERVER_PATH absent, a recall query gets an explicit
\* failure, not the degraded keyword-only response.
C8_MissingConfigIsExplicitFailure ==
  (q.pc = "done" /\ conn.caller = "recall" /\ conn.result = "config_error")
    => ("error" \in DOMAIN q.resp /\ q.resp # DegradedResponse(q.top))

\* C9: find_matching_sessions with no keywords selects nothing from the
\* query's corpus, and a query with text but no keywords ends with zero
\* results, total_sessions_searched = 0 and no connect.
C9_NoKeywordsNoCandidates ==
  /\ (q.pc # "idle" /\ q.root.exists)
       => find_matching_sessions(q.root.entries, <<>>, q.args.project) = <<>>
  /\ (q.pc # "idle" /\ Truthy(q.args.query) /\ extract_keywords(q.args.query) = <<>>)
       => /\ q.pc = "done"
          /\ q.top = <<>>
          /\ q.resp.results = <<>>
          /\ q.resp.total_sessions_searched = 0
          /\ q.connects = 0 /\ conn = ConnIdle /\ ~q.used

C9_Witness ==
  /\ q.pc = "done"
  /\ q.args.query = T_stop_only
  /\ q.root = RootThree
  /\ q.resp.results = <<>>

\* the text of the session's summary record, empty when it has none
SummaryRecordText(file) ==
  LET at == {i \in 1..Len(file.lines) :
               file.lines[i].k = "obj" /\ file.lines[i].type = "summary"
                 /\ file.lines[i].val # None}
  IN  IF at = {} THEN <<>> ELSE file.lines[CHOOSE i \in at : TRUE].val

\* C10: a session is selected iff its project passes the substring filter
\* and some keyword is a substring of the lowercased text of its summary
\* record; a session with no summary record is never selected.
C10_SelectedIffKeywordInSummary ==
  outp.run =>
    \A d \in 1..Len(inp.corpus) : \A j \in 1..Len(inp.corpus[d].files) :
      LET dir == inp.corpus[d]
          file == dir.files[j]
          selected == \E k \in 1..Len(outp.top) :
                        outp.top[k].file = [dir |-> dir.name, stem |-> file.stem]
          wanted == /\ dir.is_dir
                    /\ (Truthy(inp.project) => Contains(inp.project, decode_path(dir.name)))
                    /\ \E k \in 1..Len(inp.keywords) :
                         Contains(inp.keywords[k], Lower(SummaryRecordText(file)))
      IN  selected <=> wanted
\* the sort key of a candidate as the claim reads it: its timestamp, the
\* empty text when it has none
StampOf(c) == IF c.info.timestamp = None THEN <<>> ELSE c.info.timestamp

\* C11: the list returned by find_matching_sessions has at most
\* MAX_SESSIONS_TO_SEARCH entries, is ordered by timestamp non-increasing with
\* the sessions lacking a timestamp last, and is a selection of the most
\* recent matching sessions: no matching session left out has a timestamp
\* strictly greater than one that was kept.
C11_TopTenByRecency ==
  (outp.run /\ inp.run) =>
    LET top == outp.top
        matching == MatchDirs(inp.corpus, inp.keywords, inp.project, 1, <<>>)
    IN  /\ Len(top) <= 10
        /\ \A i \in 1..Len(top), j \in 1..Len(top) :
             i < j => /\ ~StrLess(StampOf(top[i]), StampOf(top[j]))
                      /\ (StampOf(top[i]) = <<>> => StampOf(top[j]) = <<>>)
                      /\ top[i] # top[j]
        /\ Range(top) \subseteq Range(matching)
        /\ Len(top) = Min(Len(matching), 10)
        /\ \A left \in Range(matching) \ Range(top), kept \in Range(top) :
             ~StrLess(StampOf(kept), StampOf(left))

\* C11 witness: more than ten sessions match, the list found in the corpus is
\* not in order, and sessions with and without a timestamp are both kept and
\* both left out
C11_Witness ==
  /\ outp.run /\ inp.run
  /\ LET matching == MatchDirs(inp.corpus, inp.keywords, inp.project, 1, <<>>)
         left == Range(matching) \ Range(outp.top)
     IN  /\ Len(matching) > 10
         /\ Len(outp.top) = 10
         /\ outp.top # SubSeq(matching, 1, 10)
         /\ \E k \in Range(outp.top) : StampOf(k) = <<>>
         /\ \E k \in Range(outp.top) : StampOf(k) # <<>>
         /\ \E k \in left : StampOf(k) = <<>>
         /\ \E i \in 1..Len(matching), j \in 1..Len(matching) :
              i > 10 /\ j <= 10 /\ matching[i] \in Range(outp.top) /\ matching[j] \in left

\* a line that is a well-formed record of a recognised kind
WellFormedRecord(line) ==
  line.k = "obj" /\ line.type \in {"summary", "user", "assistant"} /\ line.val # BadShape

\* C12: for every sequence of lines of a readable session file,
\* extract_session_info skips each line that is not a well-formed record of a
\* recognised kind and returns the metadata derived from the remaining lines;
\* such a line never makes it omit the session.
C12_MalformedLinesSkipped ==
  (outp.run /\ inp.run) =>
    /\ outp.info # NoInfo
    /\ outp.info = extract_session_info(
                     [inp.file EXCEPT !.lines = SelectSeq(@, WellFormedRecord)], inp.project)

\* the size in bytes of the file TextOf(n, first, each)
SizeOf(n, first, each) == IF n = 0 THEN 0 ELSE first + (n - 1) * each

\* C13: read_session_content returns the whole file when its size is at most
\* 500000 bytes, and exactly its first min(500, number of lines) lines, in
\* order and unmodified, when its size exceeds that; the content returned for
\* a file over the ceiling never has more than 500 lines.
C13_ReadWholeOrFirstLines ==
  (outp.run /\ inp.run) =>
    LET text == TextOf(inp.n, inp.first, inp.each)
        size == SizeOf(inp.n, inp.first, inp.each)
    IN  /\ size <= 500000 => outp.content = text
        /\ size > 500000 => /\ outp.content = SubSeq(text, 1, Min(500, inp.n))
                            /\ Len(outp.content) <= 500

\* C13 witness: a file over the ceiling with more than 500 lines, returned as
\* its first 500 lines
C13_Witness ==
  /\ outp.run /\ inp.run
  /\ SizeOf(inp.n, inp.first, inp.each) > 500000
  /\ inp.n > 500
  /\ Len(outp.content) = 500
  /\ outp.content[500].no = 500

\* the sessions of a corpus that the claim places in the window: [project,
\* session_id] of every file, modified at or after the cutoff, of a project
\* directory whose decoded path holds the filter
InWindow(root, arguments, now) ==
  LET days == IF arguments.days.given THEN arguments.days.n ELSE 7
      cutoff == now - days * 24 * 60 * 60
  IN  { [project |-> decode_path(root.entries[d].name),
         session_id |-> root.entries[d].files[j].stem] :
          <<d, j>> \in { x \in (1..Len(root.entries)) \X (1..3) :
                 /\ root.entries[x[1]].is_dir
                 /\ x[2] <= Len(root.entries[x[1]].files)
                 /\ root.entries[x[1]].files[x[2]].mtime >= cutoff
                 /\ (arguments.project \in {None, <<>>}
                       \/ Contains(arguments.project, decode_path(root.entries[x[1]].name))) } }

\* C14: handle_memory_timeline returns exactly the sessions of the projects
\* passing the substring filter whose file modification time is not before
\* the cutoff (now minus days), each once, ordered by timestamp
\* non-increasing, with total_sessions the number of sessions returned.
C14_TimelineExactlyTheWindow ==
  (outp.run /\ inp.run) =>
    LET sessions == outp.resp.sessions
    IN  /\ { [project |-> sessions[k].project, session_id |-> sessions[k].session_id] :
               k \in 1..Len(sessions) } = InWindow(inp.root, inp.arguments, inp.now)
        /\ Len(sessions) = Cardinality(InWindow(inp.root, inp.arguments, inp.now))
        /\ \A i \in 1..Len(sessions), j \in 1..Len(sessions) :
             i < j => ~StrLess(IF sessions[i].timestamp = None THEN <<>> ELSE sessions[i].timestamp,
                               IF sessions[j].timestamp = None THEN <<>> ELSE sessions[j].timestamp)
        /\ outp.resp.total_sessions = Len(sessions)

\* C15: a recall request whose query text is absent or empty returns the
\* structured error result with code MISSING_QUERY instead of raising, before
\* any corpus scan and before any connection attempt, and leaves the
\* connection state unchanged.
C15_MissingQueryIsStructuredError ==
  [][ (q.pc = "idle" /\ q'.pc # "idle" /\ q'.args.query \in {None, <<>>}) =>
        /\ q'.pc = "done"
        /\ q'.resp = [error |-> "MISSING_QUERY", message |-> "Query parameter is required"]
        /\ ~q'.scanned
        /\ q'.connects = 0 /\ ~conn'.active
        /\ calls' = <<>>
        /\ UNCHANGED <<session, clientCtx, sessionCtx, objs>> ]_vars

\* C15 witness: the error result returned for an empty query, by a server
\* that holds an established session and an existing corpus
C15_Witness ==
  /\ q.pc = "done"
  /\ q.args.query = <<>>
  /\ q.root = RootA
  /\ q.resp = [error |-> "MISSING_QUERY", message |-> "Query parameter is required"]
  /\ Established

\* C16: when the corpus root does not exist, each query-facing operation
\* returns an empty result without raising and without attempting a backend
\* connection: the project listing reports zero projects, zero sessions and
\* zero size; the timeline reports zero sessions; recall with a non-empty
\* query reports zero results and total_sessions_searched = 0.
C16_MissingRootGivesEmptyResults ==
  [][ /\ (api'.op = "memory_projects" /\ ~api'.root.exists) =>
           /\ api'.result = "returned"
           /\ api'.resp.projects = <<>> /\ api'.resp.total_projects = 0
           /\ api'.resp.total_sessions = 0 /\ api'.resp.total_size_gb = 0
           /\ ~conn'.active /\ calls' = <<>>
           /\ UNCHANGED <<session, clientCtx, sessionCtx, objs>>
      /\ (api'.op = "memory_timeline" /\ ~api'.root.exists) =>
           /\ api'.result = "returned"
           /\ api'.resp.sessions = <<>> /\ api'.resp.total_sessions = 0
           /\ ~conn'.active /\ calls' = <<>>
           /\ UNCHANGED <<session, clientCtx, sessionCtx, objs>>
      /\ (q.pc = "idle" /\ q'.pc # "idle" /\ ~q'.root.exists
            /\ q'.args.query \notin {None, <<>>}) =>
           /\ q'.pc = "done"
           /\ q'.resp.results = <<>> /\ q'.resp.total_sessions_searched = 0
           /\ q'.connects = 0 /\ ~conn'.active /\ calls' = <<>>
           /\ UNCHANGED <<session, clientCtx, sessionCtx, objs>> ]_vars

\* C16 witness: the project listing answered for a missing root by a server
\* that has no session and whose configuration would allow a connection
C16_Witness ==
  /\ api.op = "memory_projects"
  /\ ~api.root.exists
  /\ api.resp.total_projects = 0
  /\ session = NoObj /\ envPath

\* C17: decode_path is total; a text that does not start with '-' is
\* returned unchanged; otherwise the result is '/' followed by the rest of
\* the text with every '-' replaced by '/'.  Decoding the result again
\* changes nothing.
C17_DecodePath ==
  (outp.run /\ inp.run) =>
    LET s == inp.encoded
        r == outp.path
    IN  /\ (s = <<>> \/ s[1] # "-") => r = s
        /\ (s # <<>> /\ s[1] = "-") =>
             /\ Len(r) = Len(s)
             /\ r[1] = "/"
             /\ \A k \in 2..Len(s) : r[k] = (IF s[k] = "-" THEN "/" ELSE s[k])
        /\ decode_path(r) = r

\* C17 witness: an encoded name with a hyphen inside a directory name
C17_Witness ==
  /\ outp.run /\ inp.run
  /\ inp.encoded = <<"-", "a", "-", "B">>
  /\ outp.path = <<"/", "a", "/", "B">>

\* the positions at which a word token of a text starts, and the token that
\* starts there: the longest run of word characters
WordStarts(s) == {i \in 1..Len(s) : IsWordChar(s[i]) /\ (i = 1 \/ ~IsWordChar(s[i - 1]))}
WordAt(s, i) ==
  SubSeq(s, i, CHOOSE j \in i..Len(s) :
                 /\ \A k \in i..j : IsWordChar(s[k])
                 /\ (j = Len(s) \/ ~IsWordChar(s[j + 1])))

\* C18: extract_keywords returns, in order of occurrence, exactly the
\* lowercased word tokens of the query that are not stop words and have at
\* least 3 characters; no returned token is a stop word or shorter than 3
\* characters, and the result is empty for the empty text and for a text
\* made only of stop words.
C18_KeywordsAreFilteredTokens ==
  (outp.run /\ inp.run) =>
    LET s == Lower(inp.query)
        kept == {i \in WordStarts(s) : WordAt(s, i) \notin STOP_WORDS /\ Len(WordAt(s, i)) >= 3}
        Nth(k) == CHOOSE i \in kept : Cardinality({j \in kept : j < i}) = k - 1
    IN  /\ Len(outp.keywords) = Cardinality(kept)
        /\ \A k \in 1..Len(outp.keywords) :
             /\ outp.keywords[k] = WordAt(s, Nth(k))
             /\ outp.keywords[k] \notin STOP_WORDS
             /\ Len(outp.keywords[k]) >= 3
        /\ (\A i \in WordStarts(s) : WordAt(s, i) \in STOP_WORDS) => outp.keywords = <<>>

\* C18 witness: a query holding a capitalised stop word, a word of two
\* characters and a capitalised keyword
C18_Witness ==
  /\ outp.run /\ inp.run
  /\ inp.query \in {T_The \o <<" ">> \o T_Bug, T_Go \o <<"?">> \o T_Bug}
  /\ outp.keywords = <<T_bug>>

\* the fixed sequence of operations of one candidate, and the calls of the
\* query's trace made for candidate k
FixedOps == <<"rlm_load_context", "rlm_chunk_context", "rlm_inspect_context",
              "rlm_sub_query_batch">>
BlockOf(trace, k) == SelectSeq(trace, LAMBDA c : c.idx = k)

\* C19: within one recall query on the semantic path, the trace of backend
\* calls is the concatenation, in candidate order, of one block per
\* candidate; each block is a prefix of load-context, chunk-context,
\* inspect-context, sub-query-batch, all addressed to the context
\* session_<session id>, and is cut short only at the first call that fails
\* (a candidate whose file could not be read before the first call has the
\* empty block).  No call for a later candidate precedes a call of an
\* earlier one, and no operation is issued more than once per candidate.
C19_CallTraceIsBlocksInOrder ==
  (q.pc \in {"search", "done"}) =>
    /\ \A a \in 1..Len(q.trace), b \in 1..Len(q.trace) :
         a < b => q.trace[a].idx <= q.trace[b].idx
    /\ \A k \in 1..Len(q.top) :
         LET block == BlockOf(q.trace, k)
         IN  /\ Len(block) <= 4
             /\ \A p \in 1..Len(block) :
                  /\ block[p].op = FixedOps[p]
                  /\ block[p].name = SESSION_PREFIX \o q.top[k].info.session_id
                  /\ p < Len(block) => ~block[p].failed
             /\ (k > q.i /\ q.pc = "search") => block = <<>>
             /\ (k <= Len(q.blocks) /\ Len(q.trace) > 0 /\ Len(block) < 4) =>
                  IF block = <<>> THEN q.blocks[k].failed ELSE block[Len(block)].failed

\* the segment count the claim reads from an inspect answer
SegmentCount(reply) == IF reply.data = "dict" /\ reply.has_count THEN reply.chunk_count ELSE 1

\* C20: for every inspect response, the segment indices sent in the batch
\* sub-query are exactly 0 .. min(n, 5) - 1, n being the segment count
\* reported by the backend, and n = 1 when the inspect response is
\* unparseable or carries no usable count; the batch request is still
\* dispatched in that case, and it never names more than 5 segments nor an
\* index outside 0..n-1.
C20_BatchCoversFirstSegments ==
  \A p \in 1..Len(q.trace) :
    LET call == q.trace[p]
        n == SegmentCount(call.reply)
    IN  (call.op = "rlm_inspect_context" /\ ~call.failed) =>
          IF p = Len(q.trace) /\ q.pc = "search" /\ q.i = call.idx
            THEN q.step = "batch"
            ELSE /\ p < Len(q.trace)
                 /\ q.trace[p + 1].op = "rlm_sub_query_batch"
                 /\ q.trace[p + 1].idx = call.idx
                 /\ q.trace[p + 1].extra = [k \in 1..Min(n, 5) |-> k - 1]
                 /\ Len(q.trace[p + 1].extra) <= 5
                 /\ \A k \in 1..Len(q.trace[p + 1].extra) : q.trace[p + 1].extra[k] \in 0..(n - 1)

\* the value carried by the first record of a kind that carries one, None
\* when no record of that kind does
FirstCarried(lines, type) ==
  LET carrying == {k \in 1..Len(lines) :
                     /\ lines[k].k = "obj" /\ lines[k].type = type
                     /\ lines[k].val \notin {None, <<>>, BadShape}}
  IN  IF carrying = {} THEN None
      ELSE lines[CHOOSE k \in carrying : \A j \in carrying : k <= j].val

\* C21: the summary returned by extract_session_info is the summary of the
\* first summary-typed record of the file (later summary records do not
\* replace it), the timestamp is that of the first user-typed record
\* carrying one, and the model is that of the first assistant-typed record
\* carrying one.
C21_FirstRecordWins ==
  (outp.run /\ inp.run /\ outp.info # NoInfo) =>
    /\ FirstCarried(inp.file.lines, "summary") # None
         => outp.info.summary = FirstCarried(inp.file.lines, "summary")
    /\ outp.info.timestamp = FirstCarried(inp.file.lines, "user")
    /\ outp.info.model = FirstCarried(inp.file.lines, "assistant")

\* the relevance labels carried by entries that are real matches: the label
\* of the entries built from a batch response and the label of the entries
\* of the degraded response over the same candidates
RealMatchLabels(top) ==
  {"semantic_match"}
    \cup {DegradedResponse(top).results[k].relevance :
            k \in 1..Len(DegradedResponse(top).results)}

\* C22: the entry standing for a candidate whose search failed (the error
\* placeholder) carries a relevance label that no real-match entry
\* carries: it differs from the semantic-match label and from the
\* keyword-relevance label of the degraded path's entries.
C22_PlaceholderLabelIsDistinct ==
  \A k \in 1..Len(q.results) :
    q.results[k].excerpt.kind = "error"
      => q.results[k].relevance \notin RealMatchLabels(q.top)

\* the step is a backend call of the recall handler that was forwarded on a
\* held session and raised
SearchCallFailed ==
  /\ q.pc = "search"
  /\ Len(q'.trace) = Len(q.trace) + 1
  /\ q'.trace[Len(q'.trace)].failed

\* the step is a call_tool of the test fixture that was forwarded on a held
\* session and raised
DirectCallFailed ==
  /\ q.pc = "idle" /\ conn.call # NoObj /\ session # NoObj
  /\ api'.op = "call_tool" /\ api'.result = "backend_error"
  /\ calls # <<>>

\* C23: after a backend call fails while the client holds a session,
\* neither call_tool nor handle_memory_recall starts a connect sequence:
\* the session handle and the contexts are left as they were, the failure
\* goes to the per-candidate isolation (one placeholder, the loop moves on),
\* every backend call is forwarded on the session held, and
\* handle_memory_recall starts connect only when the session handle is unset.
C23_NoReconnectAfterFailedCall ==
  [][/\ (SearchCallFailed \/ DirectCallFailed)
          => /\ UNCHANGED <<session, clientCtx, sessionCtx, objs>>
             /\ ~conn'.active
     /\ SearchCallFailed
          => /\ Len(q'.blocks) = Len(q.blocks) + 1
             /\ q'.blocks[Len(q'.blocks)].failed
             /\ q'.blocks[Len(q'.blocks)].idx = q.i
             /\ IsPlaceholder(q'.results[Len(q'.results)], q.top[q.i].info)
             /\ \/ q'.pc = "search" /\ q'.i = q.i + 1 /\ q'.step = "load"
                \/ q'.pc = "done" /\ q.i = Len(q.top)
     /\ (q.pc = "idle" /\ q'.pc # "idle" /\ session # NoObj)
          => /\ q'.connects = 0
             /\ ~conn'.active
             /\ UNCHANGED session
     /\ (~conn.active /\ conn'.active /\ conn'.caller = "recall") => session = NoObj
     /\ (q.pc = "search" /\ Len(calls') > 0 /\ calls' # calls)
          => calls'[Len(calls')].sess = session
    ]_vars

\* a query that met a failed backend call for its first candidate has gone
\* on to its second candidate and forwarded that one's load call on the very
\* session the failed call used, without a connect of its own
C23_Witness ==
  /\ q.pc = "search" /\ q.i = 2 /\ q.connects = 0 /\ ~conn.active
  /\ session # NoObj
  /\ Len(q.trace) >= 2
  /\ q.trace[Len(q.trace) - 1].idx = 1 /\ q.trace[Len(q.trace) - 1].failed
  /\ q.trace[Len(q.trace)].idx = 2 /\ ~q.trace[Len(q.trace)].failed
  /\ Len(calls) > 0 /\ calls[Len(calls)].sess = session
  /\ IsPlaceholder(q.results[Len(q.results)], q.top[1].info)

\* C24: disconnect, called in any client state, closes the session-level
\* context before the transport-level context, skipping one that is absent,
\* and leaves the client without a session, so that the call_tool that
\* follows fails with 'Not connected'; over any sequence of connect and
\* disconnect calls, two disconnects in a row included, a context that was
\* opened is closed at most once.
C24_DisconnectClosesEachContextOnce ==
  /\ (conn.op = "disconnect" /\ conn.phase = "transport_exit" /\ sessionCtx # NoObj)
       => objs[sessionCtx].st # "open"
  /\ (api.op = "disconnect" /\ api.result = "returned")
       => /\ NotConnected(Client)
          /\ \A i \in {clientCtx, sessionCtx} \ {NoObj} : objs[i].st # "open"
  /\ (api.op = "call_tool" /\ NotConnected(Client)) => api.result = "not_connected"
  /\ \A i \in ObjIds : objs[i].st \in {"open", "closed"} => objs[i].closes <= 1

\* the contexts the client's fields still reference that are open
OpenContexts == {i \in {session, clientCtx, sessionCtx} \ {NoObj} : objs[i].st = "open"}

\* C26: every transport and session context opened by a connect attempt
\* that failed is closed before the next attempt starts or before connect
\* raises, so that none is open between the attempts of a connect sequence;
\* and after a terminal connection failure or a disconnect none is open.
C26_FailedAttemptsLeaveNothingOpen ==
  /\ (conn.op = "connect" /\ conn.phase = "sleep") => OpenContexts = {}
  /\ (conn.op = "connect" /\ conn.result = "failed") => OpenContexts = {}
  /\ (api.op = "disconnect" /\ api.result = "returned") => OpenContexts = {}

\* the running task's next step is possible: a call of the handler when it
\* has not been called, the next connect attempt, the next backend call
RunningTaskMayStep ==
  /\ (q.pc = "idle" /\ ~conn.active /\ conn.call = NoObj)
       => ENABLED RecallStart(NoArguments, NoRoot)
  /\ (conn.active /\ conn.op = "connect") => ENABLED ConnectResume("ok")
  /\ Searching("load") => ENABLED SearchLoad(TRUE)
  /\ InCall("load") => ENABLED SearchLoadResume("ok")
  /\ Searching("chunk") => ENABLED SearchChunk
  /\ InCall("chunk") => ENABLED SearchChunkResume("ok")
  /\ Searching("inspect") => ENABLED SearchInspect
  /\ InCall("inspect")
       => ENABLED (\E inspect \in ConcInspectOutcomes : SearchInspectResume(inspect))
  /\ Searching("batch") => ENABLED SearchBatch
  /\ InCall("batch") => ENABLED (\E batch \in ConcBatchOutcomes : SearchBatchResume(batch))

\* C25: nothing in the client keeps two recall queries apart.  Whatever the
\* position of the other query, the query that runs may take its next step
\* (start, connect attempt, backend call), so the backend calls of two
\* queries sharing a candidate can interleave on one context name; and a
\* query that starts while the session handle is unset passes the check of
\* line 481 and runs a connect sequence of its own from its first attempt,
\* also while the other query's connect sequence is still in progress.
C25_NoLockOnTheClient ==
  /\ []RunningTaskMayStep
  /\ [][(q.pc = "idle" /\ q'.pc # "idle" /\ peer' = peer
           /\ session = NoObj /\ q'.top # <<>>)
          => /\ q'.pc = "connecting" /\ q'.connects = 1
             /\ conn'.active /\ conn'.attempt = 0 /\ conn'.caller = "recall"]_vars
  /\ [](q.pc = "connecting" => (conn.active /\ conn.caller = "recall"))
  /\ [](peer.q.pc = "connecting" => (peer.conn.active /\ peer.conn.caller = "recall"))

\* both queries started while the session handle was unset and each ran a
\* connect sequence; the suspended query's load of the shared context name
\* was forwarded while the other query's inspect call was in flight, and is
\* itself still in flight when the other query forwards its batch sub-query
C25_Witness ==
  /\ q.connects = 1 /\ peer.q.connects = 1
  /\ Len(calls) = 2
  /\ calls[1].op = "rlm_load_context" /\ calls[2].op = "rlm_sub_query_batch"
  /\ calls[1].name = calls[2].name
  /\ InCall("batch")
  /\ Len(q.trace) = 3
  /\ q.trace[3].op = "rlm_inspect_context" /\ q.trace[3].name = calls[1].name
  /\ peer.q.pc = "search" /\ peer.q.step = "load" /\ peer.conn.call # NoObj
  /\ peer.q.trace = <<>>

====
